---- MODULE Spec2Model ----
(***************************************************************************)
(* A model of the Wikipedia reliable-sources scripts: the update checker   *)
(* (scripts/update_checker.py) over the perennial-sources pipeline         *)
(* (scripts/fetch_perennial_sources.py), the WikiProject page parser       *)
(* (scripts/fetch_wikiproject_sources.py), the category fetcher            *)
(* (core/fetch_articles.py), the wikitext downloader (src/fetch_wikitext), *)
(* and the URL canonicalizer and reference counter                         *)
(* (core/utils/normalize_url.py, src/clean_sources.py).                    *)
(*                                                                         *)
(* Python strings are sequences of one-character strings, so that the      *)
(* scripts' splitting, stripping and substring tests are computed as the   *)
(* code computes them.  Each part is one state machine; the variable       *)
(* `program` names the one a behaviour runs, the others staying idle.      *)
(* Functions that touch no file and no network (clean_entries,             *)
(* validate_entries, rank_sources, strip_subdomain, _status_from_heading)  *)
(* also have a machine of a single call on arguments from a pool.          *)
(***************************************************************************)
EXTENDS Integers, Sequences, FiniteSets, TLC

(***************************************************************************)
(* Python values and str methods                                           *)
(***************************************************************************)
\* None: a value that is no string (every string is a sequence of single characters)
None == <<"None">>

EMPTY == << >>

Whitespace == {" ", "\n", "\t"}

UpperCase == <<"A","B","C","D","E","F","G","H","I","J","K","L","M","N","O","P","Q","R","S","T","U","V","W","X","Y","Z">>

LowerCase == <<"a","b","c","d","e","f","g","h","i","j","k","l","m","n","o","p","q","r","s","t","u","v","w","x","y","z">>

\* str.lower() on one character
LowerChar(c) ==
  IF \E k \in 1..26 : UpperCase[k] = c
    THEN LowerCase[CHOOSE k \in 1..26 : UpperCase[k] = c]
    ELSE c

\* str.lower()
Lower(s) == [k \in 1..Len(s) |-> LowerChar(s[k])]

\* s[k:] (k is a 0-based Python index)
From(s, k) == IF k >= Len(s) THEN EMPTY ELSE SubSeq(s, k + 1, Len(s))

\* s[:k]
Upto(s, k) == IF k <= 0 THEN EMPTY ELSE SubSeq(s, 1, IF k > Len(s) THEN Len(s) ELSE k)

\* s.startswith(p)
StartsWith(s, p) == Len(p) <= Len(s) /\ SubSeq(s, 1, Len(p)) = p

\* sub occurs in s at the 0-based index k
OccursAt(s, sub, k) == SubSeq(s, k + 1, k + Len(sub)) = sub

\* s.find(sub): the lowest 0-based index of sub in s, -1 when it does not occur
Find(s, sub) ==
  IF \E k \in 0..(Len(s) - Len(sub)) : OccursAt(s, sub, k)
    THEN CHOOSE k \in 0..(Len(s) - Len(sub)) :
           OccursAt(s, sub, k) /\ \A j \in 0..(k - 1) : ~OccursAt(s, sub, j)
    ELSE -1

\* sub in s
Contains(s, sub) == Find(s, sub) >= 0

\* s.lstrip(chars)
RECURSIVE LStripChars(_, _)
LStripChars(s, chars) ==
  IF s # EMPTY /\ Head(s) \in chars THEN LStripChars(Tail(s), chars) ELSE s

\* s.rstrip(chars)
RECURSIVE RStripChars(_, _)
RStripChars(s, chars) ==
  IF s # EMPTY /\ s[Len(s)] \in chars
    THEN RStripChars(SubSeq(s, 1, Len(s) - 1), chars)
    ELSE s

\* s.strip()
Strip(s) == RStripChars(LStripChars(s, Whitespace), Whitespace)

\* s.split(sep): the pieces of s between the occurrences of sep, left to right
RECURSIVE Split(_, _)
Split(s, sep) ==
  LET k == Find(s, sep)
  IN  IF k < 0 THEN <<s>>
      ELSE <<Upto(s, k)>> \o Split(From(s, k + Len(sep)), sep)

\* s.split(sep, 1)
SplitOnce(s, sep) ==
  LET k == Find(s, sep)
  IN  IF k < 0 THEN <<s>> ELSE <<Upto(s, k), From(s, k + Len(sep))>>

\* sep.join(parts)
RECURSIVE Join(_, _)
Join(parts, sep) ==
  IF parts = EMPTY THEN EMPTY
  ELSE IF Len(parts) = 1 THEN parts[1]
  ELSE parts[1] \o sep \o Join(Tail(parts), sep)

\* s.replace(a, b) for single characters
ReplaceChar(s, a, b) == [k \in 1..Len(s) |-> IF s[k] = a THEN b ELSE s[k]]

\* the elements of a sequence
Range(s) == {s[k] : k \in 1..Len(s)}

(***************************************************************************)
(* scripts/fetch_perennial_sources.py: parsing and cleaning                *)
(***************************************************************************)
S_generally_reliable ==
  <<"g","e","n","e","r","a","l","l","y"," ","r","e","l","i","a","b","l","e">>

S_reliable ==
  <<"r","e","l","i","a","b","l","e">>

S_generally_unreliable ==
  <<"g","e","n","e","r","a","l","l","y"," ","u","n","r","e","l","i","a","b","l","e">>

S_unreliable ==
  <<"u","n","r","e","l","i","a","b","l","e">>

S_no_consensus ==
  <<"n","o"," ","c","o","n","s","e","n","s","u","s">>

S_deprecated ==
  <<"d","e","p","r","e","c","a","t","e","d">>

S_blacklisted ==
  <<"b","l","a","c","k","l","i","s","t","e","d">>

S_marginally_reliable ==
  <<"m","a","r","g","i","n","a","l","l","y"," ","r","e","l","i","a","b","l","e">>

S_gr ==
  <<"g","r">>

S_gu ==
  <<"g","u">>

S_nc ==
  <<"n","c">>

S_d ==
  <<"d">>

S_m ==
  <<"m">>

S_ABC_News ==
  <<"A","B","C"," ","N","e","w","s"," ","(","U","S",")">>

S_Daily_Mail ==
  <<"D","a","i","l","y"," ","M","a","i","l"," ","(","M","a","i","l","O","n","l","i","n","e",")">>

S_sort_value_prefix ==
  <<"d","a","t","a","-","s","o","r","t","-","v","a","l","u","e","=","\"">>

S_onlyinclude ==
  <<"<","o","n","l","y","i","n","c","l","u","d","e",">">>

S_end_onlyinclude ==
  <<"<","/","o","n","l","y","i","n","c","l","u","d","e",">">>

S_row_separator ==
  <<"\n","|","-"," ">>

\* STATUS_MAP, in the dict's order
STATUS_MAP ==
  << <<S_generally_reliable, S_gr>>, <<S_reliable, S_gr>>,
     <<S_generally_unreliable, S_gu>>, <<S_unreliable, S_gu>>,
     <<S_no_consensus, S_nc>>, <<S_deprecated, S_d>>,
     <<S_blacklisted, S_d>>, <<S_marginally_reliable, S_m>> >>

\* STATUS_MAP.get(key, default)
StatusMapGet(key, default) ==
  IF \E k \in 1..Len(STATUS_MAP) : STATUS_MAP[k][1] = key
    THEN STATUS_MAP[CHOOSE k \in 1..Len(STATUS_MAP) : STATUS_MAP[k][1] = key][2]
    ELSE default

\* SourceEntry(source_name, reliability_status, notes)
SourceEntry(name, status, notes) ==
  [source_name |-> name, reliability_status |-> status, notes |-> notes]

\* the length of the match of _SORT_RE at the start of s, 0 when it does not match
SortReMatch(s) ==
  IF ~StartsWith(s, S_sort_value_prefix) THEN 0
  ELSE LET a == From(s, Len(S_sort_value_prefix))
           q == Find(a, <<"\"">>)
       IN  IF q < 0 THEN 0
           ELSE LET b == LStripChars(From(a, q + 1), Whitespace)
                IN  IF b = EMPTY \/ Head(b) # "|" THEN 0
                    ELSE Len(s) - Len(LStripChars(Tail(b), Whitespace))

\* _SORT_RE.sub("", s)
RECURSIVE SortReSub(_)
SortReSub(s) ==
  IF s = EMPTY THEN EMPTY
  ELSE IF SortReMatch(s) > 0 THEN SortReSub(From(s, SortReMatch(s)))
  ELSE <<Head(s)>> \o SortReSub(Tail(s))

clean_source_name(name) == Strip(SortReSub(name))

\* the body of clean_entries' loop for one entry: the entry with its fields normalized
CleanedEntry(e) ==
  SourceEntry(clean_source_name(e.source_name),
              IF e.reliability_status # None /\ e.reliability_status # EMPTY
                THEN StatusMapGet(Lower(e.reliability_status), Lower(e.reliability_status))
                ELSE e.reliability_status,
              e.notes)

\* clean_entries' loop with seen holding the names as written
RECURSIVE CleanEntriesLoopCaseSensitive(_, _, _)
CleanEntriesLoopCaseSensitive(entries, cleaned, seen) ==
  IF entries = EMPTY THEN cleaned
  ELSE LET e == CleanedEntry(Head(entries))
           key == e.source_name
       IN  IF key \in seen
             THEN CleanEntriesLoopCaseSensitive(Tail(entries), cleaned, seen)
             ELSE CleanEntriesLoopCaseSensitive(Tail(entries), Append(cleaned, e),
                                                seen \cup {key})

RECURSIVE CleanEntriesLoop(_, _, _)
CleanEntriesLoop(entries, cleaned, seen) ==
  IF entries = EMPTY THEN cleaned
  ELSE LET e == CleanedEntry(Head(entries))
           key == Lower(e.source_name)
       IN  IF key \in seen
             THEN CleanEntriesLoop(Tail(entries), cleaned, seen)
             ELSE CleanEntriesLoop(Tail(entries), Append(cleaned, e), seen \cup {key})

clean_entries(entries) == CleanEntriesLoop(entries, EMPTY, {})

\* next((e for e in entries if e.source_name == name), None), as a sequence: the
\* first entry named name, or nothing
FirstNamed(entries, name) ==
  IF \E k \in 1..Len(entries) : entries[k].source_name = name
    THEN <<entries[CHOOSE k \in 1..Len(entries) :
                     /\ entries[k].source_name = name
                     /\ \A j \in 1..(k - 1) : entries[j].source_name # name]>>
    ELSE EMPTY

\* validate_entries accepting any entry of the name with the status, not the first
validate_entries_any_match(entries) ==
  \A check \in {<<S_ABC_News, S_gr>>, <<S_Daily_Mail, S_d>>} :
    \E k \in 1..Len(entries) :
      entries[k].source_name = check[1] /\ entries[k].reliability_status = check[2]

\* validate_entries(entries) returns (TRUE) or raises ValueError (FALSE)
validate_entries(entries) ==
  \A check \in {<<S_ABC_News, S_gr>>, <<S_Daily_Mail, S_d>>} :
    LET match == FirstNamed(entries, check[1])
    IN  ~(match = EMPTY \/ match[1].reliability_status # check[2])

\* extract_rows(wikitext)
extract_rows(wikitext) ==
  LET inner == IF Contains(wikitext, S_onlyinclude)
                 THEN SplitOnce(SplitOnce(wikitext, S_onlyinclude)[2], S_end_onlyinclude)[1]
                 ELSE wikitext
  IN  Tail(Split(inner, S_row_separator))

\* the loop of _split_cells over the lines after the row attributes
RECURSIVE SplitCellsLoop(_, _, _)
SplitCellsLoop(lines, cells, current) ==
  IF lines = EMPTY
    THEN IF current # EMPTY THEN Append(cells, current) ELSE cells
  ELSE LET line == Head(lines)
       IN  IF StartsWith(line, <<"|">>)
             THEN SplitCellsLoop(Tail(lines),
                                 IF current # EMPTY THEN Append(cells, current) ELSE cells,
                                 Strip(Tail(line)))
             ELSE SplitCellsLoop(Tail(lines), cells, current \o <<" ">> \o Strip(line))

_split_cells(row) == SplitCellsLoop(Tail(Split(row, <<"\n">>)), EMPTY, EMPTY)

\* mwparserfromhell: Wikicode.strip_code() for templates, wikilinks and quote markup
RECURSIVE strip_code(_)
strip_code(s) ==
  IF s = EMPTY THEN EMPTY
  ELSE IF StartsWith(s, <<"{","{">>) /\ Contains(s, <<"}","}">>)
    THEN strip_code(From(s, Find(s, <<"}","}">>) + 2))
  ELSE IF StartsWith(s, <<"[","[">>) /\ Contains(s, <<"]","]">>)
    THEN LET k == Find(s, <<"]","]">>)
             inner == SubSeq(s, 3, k)
             p == Find(inner, <<"|">>)
         IN  (IF p < 0 THEN inner ELSE From(inner, p + 1)) \o strip_code(From(s, k + 2))
  ELSE IF StartsWith(s, <<"'","'">>)
    THEN strip_code(LStripChars(s, {"'"}))
  ELSE <<Head(s)>> \o strip_code(Tail(s))

\* mwparserfromhell: Wikicode.filter_templates(); the text between the braces of each
RECURSIVE filter_templates(_)
filter_templates(s) ==
  LET a == Find(s, <<"{","{">>)
  IN  IF a < 0 THEN EMPTY
      ELSE LET rest == From(s, a + 2)
               b == Find(rest, <<"}","}">>)
           IN  IF b < 0 THEN EMPTY
               ELSE <<Upto(rest, b)>> \o filter_templates(From(rest, b + 2))

\* Template.params: the values of the template's parameters
TemplateParams(template) ==
  LET parts == Tail(Split(template, <<"|">>))
  IN  [k \in 1..Len(parts) |->
         IF Contains(parts[k], <<"=">>) THEN SplitOnce(parts[k], <<"=">>)[2] ELSE parts[k]]

Raised(exception) == [raised |-> exception]

IsRaised(result) == "raised" \in DOMAIN result

\* parse_row(row): a SourceEntry, or the exception it raises
parse_row(row) ==
  LET cells == _split_cells(row)
  IN  IF Len(cells) < 5 THEN Raised("ValueError")
      ELSE LET status_templates == filter_templates(cells[2])
           IN  IF status_templates # EMPTY /\ TemplateParams(status_templates[1]) = EMPTY
                 THEN Raised("IndexError")
                 ELSE SourceEntry(
                        Strip(strip_code(cells[1])),
                        IF status_templates # EMPTY
                          THEN Strip(strip_code(TemplateParams(status_templates[1])[1]))
                          ELSE None,
                        Strip(strip_code(cells[5])))

\* the inner loop of fetch_all without the try: what parse_row raises is appended
\* like an entry
ParsedRowsKeepingRaised(rows) == [k \in 1..Len(rows) |-> parse_row(rows[k])]

\* the inner loop of fetch_all: the rows of one subpage that parse, in order
RECURSIVE ParsedRows(_)
ParsedRows(rows) ==
  IF rows = EMPTY THEN EMPTY
  ELSE LET r == parse_row(Head(rows))
       IN  (IF IsRaised(r) THEN EMPTY ELSE <<r>>) \o ParsedRows(Tail(rows))

(***************************************************************************)
(* scripts/fetch_wikiproject_sources.py: parsing a WikiProject page        *)
(***************************************************************************)
\* the characters U+2013 and U+2014
EN_DASH == "<U+2013>"

EM_DASH == "<U+2014>"

S_name ==
  <<"n","a","m","e">>

S_publication ==
  <<"p","u","b","l","i","c","a","t","i","o","n">>

S_source ==
  <<"s","o","u","r","c","e">>

S_ko_rel ==
  <<"k","o","-","r","e","l">>

S_ko_unrel ==
  <<"k","o","-","u","n","r","e","l">>

S_ko_nocon ==
  <<"k","o","-","n","o","c","o","n">>

S_ko_b ==
  <<"k","o","-","b">>

S_class_attr ==
  <<"c","l","a","s","s","=","\"">>

S_table_open ==
  <<"{","|">>

S_table_close ==
  <<"|","}">>

S_row_start ==
  <<"|","-">>

S_cell_sep ==
  <<"|","|">>

S_header_sep ==
  <<"!","!">>

\* dash_variants, in the list's order
DASH_VARIANTS ==
  <<
    <<" ",EN_DASH," ">>,
    <<" ","-","-"," ">>,
    <<" ",EM_DASH," ">>,
    <<" ","-"," ">>,
    <<EM_DASH>>,
    <<EN_DASH>>,
    <<"-">>
  >>

H_RELIABLE ==
  <<
    <<"=","=","R","e","l","i","a","b","l","e"," ","s","o","u","r","c","e","s","=","=">>
  >>

H_UNRELIABLE ==
  <<
    <<"=","=","U","n","r","e","l","i","a","b","l","e"," ","s","o","u","r","c","e","s","=","=">>
  >>

H_NOTES ==
  <<
    <<"=","=","N","o","t","e","s","=","=">>
  >>

\* the table of test_parse_page_extracts_entries
T_PLAIN ==
  <<
    <<"{","|"," ","c","l","a","s","s","=","\"","w","i","k","i","t","a","b","l","e","\"">>,
    <<"|","-">>,
    <<"!"," ","N","a","m","e"," ","!","!"," ","N","o","t","e","s">>,
    <<"|","-">>,
    <<"|"," ","[","[","F","o","o"," ","N","e","w","s","]","]"," ","|","|"," ","S","o","m","e",
      " ","'","'","n","o","t","e","s","'","'">>,
    <<"|","}">>
  >>

\* the table of test_parse_page_class_based_status, with a row per class
T_CLASSES ==
  <<
    <<"{","|"," ","c","l","a","s","s","=","\"","w","i","k","i","t","a","b","l","e","\"">>,
    <<"|","-"," ","c","l","a","s","s","=","\"","k","o","-","u","n","r","e","l","\"">>,
    <<"|"," ","[","[","F","o","o"," ","S","o","u","r","c","e","]","]"," ","|","|"," ","S","o",
      "m","e"," ","n","o","t","e","s">>,
    <<"|","-"," ","c","l","a","s","s","=","\"","k","o","-","r","e","l","\"">>,
    <<"|"," ","R","e","l"," ","|","|"," ","r">>,
    <<"|","-"," ","c","l","a","s","s","=","\"","k","o","-","n","o","c","o","n","\"">>,
    <<"|"," ","N","o","c","o","n"," ","|","|"," ","n">>,
    <<"|","-"," ","c","l","a","s","s","=","\"","s","o","r","t","a","b","l","e"," ","k","o","-",
      "b","\"">>,
    <<"|"," ","B","l","a","c","k"," ","|","|"," ","b">>,
    <<"|","-"," ","c","l","a","s","s","=","\"","o","d","d","\"">>,
    <<"|"," ","O","d","d"," ","|","|"," ","o">>,
    <<"|","-">>,
    <<"!"," ","[","[","B","a","d"," ","S","o","u","r","c","e","]","]"," ","|","|"," ","h">>,
    <<"|","}">>
  >>

\* a table with a heading-like and a bullet-like line inside
T_MIXED ==
  <<
    <<"{","|">>,
    <<"|","-">>,
    <<"|"," ","[","[","Q","u","u","x","]","]">>,
    <<"=","=","U","n","r","e","l","i","a","b","l","e"," ","s","o","u","r","c","e","s","=","=">>,
    <<"*"," ","[","[","Z","e","d","]","]"," ","-"," ","z">>,
    <<" ","|","}">>
  >>

\* a table without its closing line
T_UNCLOSED ==
  <<
    <<"{","|">>,
    <<"|","-"," ","c","l","a","s","s","=","\"","k","o","-","r","e","l","\"">>,
    <<"|"," ","[","[","O","p","e","n","]","]"," ","|","|"," ","u">>
  >>

\* the bullet of test_parse_page_extracts_bullet_entries
B_DASH ==
  <<
    <<"*"," ","[","[","F","o","o"," ","S","i","t","e","]","]"," ",EN_DASH," ","E","x","a","m",
      "p","l","e"," ","n","o","t","e","s">>
  >>

\* the numbered item of test_parse_page_handles_numbered_lists, a reply and an empty bullet
B_NUMBERED ==
  <<
    <<"#"," ","[","[","B","a","d"," ","S","i","t","e","]","]"," ","-"," ","i","n","f","o">>,
    <<":"," ","r","e","p","l","y">>,
    <<" ","*">>
  >>

\* the phrases of _status_from_heading's order list
HEADING_PHRASES ==
  << S_generally_unreliable, S_unreliable, S_generally_reliable, S_reliable,
     S_no_consensus, S_deprecated, S_blacklisted, S_marginally_reliable >>

\* the first key of keys that occurs in text, as a list of at most one element
RECURSIVE FirstKeyIn(_, _)
FirstKeyIn(text, keys) ==
  IF keys = EMPTY THEN EMPTY
  ELSE IF Contains(text, Head(keys)) THEN <<Head(keys)>>
  ELSE FirstKeyIn(text, Tail(keys))

_status_from_heading(text) ==
  LET key == FirstKeyIn(Lower(text), HEADING_PHRASES)
  IN  IF key = EMPTY THEN None ELSE StatusMapGet(key[1], None)

\* mwparserfromhell.parse(stripped).strip_code() for a line that starts with "=": the
\* title of the heading when the line is one, the line's text otherwise
HeadingText(stripped) ==
  LET opening == Len(stripped) - Len(LStripChars(stripped, {"="}))
      closing == Len(stripped) - Len(RStripChars(stripped, {"="}))
      level == IF opening < closing THEN opening ELSE closing
  IN  IF closing = 0 \/ opening = Len(stripped) THEN strip_code(stripped)
      ELSE strip_code(SubSeq(stripped, level + 1, Len(stripped) - level))

\* text.split(dash, 1) for the first dash of dash_variants that occurs in text
RECURSIVE SplitAtFirstDash(_, _)
SplitAtFirstDash(text, dashes) ==
  IF dashes = EMPTY THEN <<text, EMPTY>>
  ELSE IF Contains(text, Head(dashes)) THEN SplitOnce(text, Head(dashes))
  ELSE SplitAtFirstDash(text, Tail(dashes))

\* _parse_bullet_line(line): <<name, notes>>
_parse_bullet_line(line) ==
  LET text == Strip(LStripChars(line, {"*", "#"}))
      parts == SplitAtFirstDash(text, DASH_VARIANTS)
  IN  << clean_source_name(Strip(strip_code(parts[1]))), Strip(strip_code(parts[2])) >>

\* the cells (td and th tags) that one table line starting with "|" or "!" holds
RECURSIVE SplitAll(_, _)
SplitAll(pieces, sep) ==
  IF pieces = EMPTY THEN EMPTY
  ELSE Split(Head(pieces), sep) \o SplitAll(Tail(pieces), sep)

CellContents(piece) ==
  LET bar == Find(piece, <<"|">>)
      link == Find(piece, <<"[","[">>)
  IN  IF bar >= 0 /\ (link < 0 \/ bar < link) THEN From(piece, bar + 1) ELSE piece

RECURSIVE CellsOfPieces(_)
CellsOfPieces(pieces) ==
  IF pieces = EMPTY THEN EMPTY
  ELSE <<CellContents(Head(pieces))>> \o CellsOfPieces(Tail(pieces))

CellsOfLine(line) ==
  CellsOfPieces(IF Head(line) = "!"
                  THEN SplitAll(Split(Tail(line), S_cell_sep), S_header_sep)
                  ELSE Split(Tail(line), S_cell_sep))

\* mwparserfromhell: the tr tags of a table, each with its attributes and its cells;
\* rows is the list built so far, its last element the row the lines belong to
RECURSIVE TableRowsLoop(_, _)
TableRowsLoop(lines, rows) ==
  IF lines = EMPTY THEN rows
  ELSE LET line == LStripChars(Head(lines), Whitespace)
           n == Len(rows)
       IN  IF StartsWith(line, S_table_close) THEN rows
           ELSE IF StartsWith(line, S_row_start)
             THEN TableRowsLoop(Tail(lines),
                                Append(rows, [attrs |-> From(line, 2), cells |-> EMPTY]))
           ELSE IF n = 0 THEN TableRowsLoop(Tail(lines), rows)
           ELSE IF line # EMPTY /\ Head(line) \in {"|", "!"}
             THEN TableRowsLoop(Tail(lines),
                    [rows EXCEPT ![n].cells = @ \o CellsOfLine(line)])
           ELSE IF rows[n].cells = EMPTY THEN TableRowsLoop(Tail(lines), rows)
           ELSE TableRowsLoop(Tail(lines),
                  [rows EXCEPT ![n].cells[Len(rows[n].cells)] = @ \o <<"\n">> \o Head(lines)])

\* some line of lines closes a table
RECURSIVE HasTableClose(_)
HasTableClose(lines) ==
  /\ lines # EMPTY
  /\ \/ StartsWith(LStripChars(Head(lines), Whitespace), S_table_close)
     \/ HasTableClose(Tail(lines))

\* the tr tags that follow the table's opening line; without a closing line the text
\* is no table and has no rows
RowsAfterOpening(lines) ==
  IF HasTableClose(lines) THEN TableRowsLoop(lines, EMPTY) ELSE EMPTY

\* code.filter_tags(matches tr)
TableRows(table_text) == RowsAfterOpening(Tail(Split(table_text, <<"\n">>)))

\* row.get("class").value when row.has("class"), None otherwise
ClassValue(attrs) ==
  LET a == Find(attrs, S_class_attr)
  IN  IF a < 0 THEN None
      ELSE LET rest == From(attrs, a + Len(S_class_attr))
               b == Find(rest, <<"\"">>)
           IN  IF b < 0 THEN rest ELSE Upto(rest, b)

\* the text of the row's first cell
FirstCellText(row) == Strip(strip_code(row.cells[1]))

\* the rows of _parse_table's loop that neither continue statement skips
EntryRows(rows) ==
  SelectSeq(rows, LAMBDA row :
    /\ row.cells # EMPTY
    /\ Lower(FirstCellText(row)) \notin {S_name, S_publication, S_source})

\* row_status in _parse_table, with the class consulted before the heading's status
RowStatusClassFirst(status, row) ==
  LET class_value == ClassValue(row.attrs)
  IN  IF class_value # None /\ Contains(class_value, S_ko_rel) THEN S_gr
      ELSE IF class_value # None /\ Contains(class_value, S_ko_unrel) THEN S_gu
      ELSE IF class_value # None /\ Contains(class_value, S_ko_nocon) THEN S_nc
      ELSE IF class_value # None /\ Contains(class_value, S_ko_b) THEN S_d
      ELSE status

\* row_status in _parse_table
RowStatus(status, row) ==
  IF status # None THEN status
  ELSE LET class_value == ClassValue(row.attrs)
       IN  IF class_value = None THEN None
           ELSE IF Contains(class_value, S_ko_rel) THEN S_gr
           ELSE IF Contains(class_value, S_ko_unrel) THEN S_gu
           ELSE IF Contains(class_value, S_ko_nocon) THEN S_nc
           ELSE IF Contains(class_value, S_ko_b) THEN S_d
           ELSE None

\* the body of _parse_table's loop for the rows it does not skip
RECURSIVE RowEntries(_, _)
RowEntries(rows, status) ==
  IF rows = EMPTY THEN EMPTY
  ELSE << SourceEntry(clean_source_name(FirstCellText(Head(rows))),
                      RowStatus(status, Head(rows)),
                      Strip(strip_code(Head(rows).cells[Len(Head(rows).cells)]))) >>
       \o RowEntries(Tail(rows), status)

_parse_table(table_text, status) == RowEntries(EntryRows(TableRows(table_text)), status)

\* str.splitlines() of a text whose line ends are "\n"
splitlines(text) ==
  LET parts == Split(text, <<"\n">>)
  IN  IF parts[Len(parts)] = EMPTY THEN SubSeq(parts, 1, Len(parts) - 1) ELSE parts

\* the blocks the pages are put together from
Blocks ==
  << H_RELIABLE, H_UNRELIABLE, H_NOTES, T_PLAIN, T_CLASSES, T_MIXED, T_UNCLOSED,
     B_DASH, B_NUMBERED >>

\* the longest page, in blocks
MaxBlocks == 3

RECURSIVE JoinBlocks(_)
JoinBlocks(bs) ==
  IF bs = EMPTY THEN EMPTY ELSE Blocks[Head(bs)] \o JoinBlocks(Tail(bs))

\* the wikitext of the pages fetch_page can return
Pages ==
  { Join(JoinBlocks(bs), <<"\n">>) :
      bs \in UNION {[1..n -> 1..Len(Blocks)] : n \in 0..MaxBlocks} }

(***************************************************************************)
(* core/utils/normalize_url.py and src/utils/normalize_url.py              *)
(***************************************************************************)
\* the printable ASCII characters in code order, from the space (code 32) on
ASCII ==
  <<" ","!","\"","#","$","%","&","'","(",")","*","+",",","-",".","/",
    "0","1","2","3","4","5","6","7","8","9",":",";","<","=",">","?",
    "@","A","B","C","D","E","F","G","H","I","J","K","L","M","N","O",
    "P","Q","R","S","T","U","V","W","X","Y","Z","[","\\","]","^","_",
    "<U+0060>","a","b","c","d","e","f","g","h","i","j","k","l","m","n","o",
    "p","q","r","s","t","u","v","w","x","y","z","{","|","}","~">>

\* ord(c) and chr(n) for these characters
Ord(c) == 31 + CHOOSE k \in 1..Len(ASCII) : ASCII[k] = c

Chr(n) == ASCII[n - 31]

HexDigits == <<"0","1","2","3","4","5","6","7","8","9","A","B","C","D","E","F">>

IsHex(c) == \E k \in 1..16 : HexDigits[k] = c \/ LowerChar(HexDigits[k]) = c

HexValue(c) == (CHOOSE k \in 1..16 : HexDigits[k] = c \/ LowerChar(HexDigits[k]) = c) - 1

Digits == {"0","1","2","3","4","5","6","7","8","9"}

Letters == Range(UpperCase) \cup Range(LowerCase)

\* a < b for strings, as Python compares them
RECURSIVE StrLess(_, _)
StrLess(a, b) ==
  IF b = EMPTY THEN FALSE
  ELSE IF a = EMPTY THEN TRUE
  ELSE IF Head(a) # Head(b) THEN Ord(Head(a)) < Ord(Head(b))
  ELSE StrLess(Tail(a), Tail(b))

\* p < q for (key, value) tuples
PairLess(p, q) == StrLess(p[1], q[1]) \/ (p[1] = q[1] /\ StrLess(p[2], q[2]))

\* sorted(pairs)
RECURSIVE InsertSorted(_, _)
InsertSorted(sorted, p) ==
  IF sorted = EMPTY THEN <<p>>
  ELSE IF PairLess(p, Head(sorted)) THEN <<p>> \o sorted
  ELSE <<Head(sorted)>> \o InsertSorted(Tail(sorted), p)

RECURSIVE SortedPairs(_)
SortedPairs(pairs) ==
  IF pairs = EMPTY THEN EMPTY
  ELSE InsertSorted(SortedPairs(SubSeq(pairs, 1, Len(pairs) - 1)), pairs[Len(pairs)])

\* urllib.parse.unquote for escapes of printable ASCII characters, after "+" became " "
RECURSIVE unquote_plus(_)
unquote_plus(s) ==
  IF s = EMPTY THEN EMPTY
  ELSE IF Head(s) = "%" /\ Len(s) >= 3 /\ IsHex(s[2]) /\ IsHex(s[3])
    THEN <<Chr(16 * HexValue(s[2]) + HexValue(s[3]))>> \o unquote_plus(From(s, 3))
  ELSE IF Head(s) = "+" THEN <<" ">> \o unquote_plus(Tail(s))
  ELSE <<Head(s)>> \o unquote_plus(Tail(s))

\* urllib.parse.quote_plus
RECURSIVE quote_plus(_)
quote_plus(s) ==
  IF s = EMPTY THEN EMPTY
  ELSE LET c == Head(s)
       IN  (IF c \in Letters \cup Digits \cup {"_", ".", "-", "~"} THEN <<c>>
            ELSE IF c = " " THEN <<"+">>
            ELSE <<"%", HexDigits[(Ord(c) \div 16) + 1], HexDigits[(Ord(c) % 16) + 1]>>)
           \o quote_plus(Tail(s))

\* urllib.parse.parse_qsl(qs, keep_blank_values): the (key, value) pairs of the segments
RECURSIVE ParseSegments(_, _)
ParseSegments(segments, keep_blank_values) ==
  IF segments = EMPTY THEN EMPTY
  ELSE LET nv == SplitOnce(Head(segments), <<"=">>)
           value == IF Len(nv) = 2 THEN nv[2] ELSE EMPTY
       IN  (IF Head(segments) = EMPTY THEN EMPTY
            ELSE IF ~keep_blank_values /\ value = EMPTY THEN EMPTY
            ELSE << <<unquote_plus(nv[1]), unquote_plus(value)>> >>)
           \o ParseSegments(Tail(segments), keep_blank_values)

parse_qsl(qs, keep_blank_values) ==
  IF qs = EMPTY THEN EMPTY ELSE ParseSegments(Split(qs, <<"&">>), keep_blank_values)

\* urllib.parse.urlencode(pairs)
RECURSIVE urlencode(_)
urlencode(pairs) ==
  IF pairs = EMPTY THEN EMPTY
  ELSE quote_plus(Head(pairs)[1]) \o <<"=">> \o quote_plus(Head(pairs)[2])
       \o (IF Len(pairs) > 1 THEN <<"&">> \o urlencode(Tail(pairs)) ELSE EMPTY)

\* the schemes of urllib.parse.uses_netloc that the model's URLs use
uses_netloc == { <<"h","t","t","p">>, <<"h","t","t","p","s">>, <<"f","t","p">> }

\* the 0-based index of the first of the characters chars in s, Len(s) without one
RECURSIVE IndexOfAny(_, _)
IndexOfAny(s, chars) ==
  IF s = EMPTY \/ Head(s) \in chars THEN 0 ELSE 1 + IndexOfAny(Tail(s), chars)

\* urllib.parse.urlparse(url), for URLs without parameters (";")
urlparse(url) ==
  LET colon == Find(url, <<":">>)
      has_scheme == /\ colon > 0
                    /\ url[1] \in Letters
                    /\ Range(Upto(url, colon)) \subseteq
                         Letters \cup Digits \cup {"+", "-", "."}
      scheme == IF has_scheme THEN Lower(Upto(url, colon)) ELSE EMPTY
      rest == IF has_scheme THEN From(url, colon + 1) ELSE url
      has_netloc == StartsWith(rest, <<"/","/">>)
      delim == IF has_netloc THEN 2 + IndexOfAny(From(rest, 2), {"/", "?", "#"}) ELSE 0
      netloc == IF has_netloc THEN SubSeq(rest, 3, delim) ELSE EMPTY
      after == From(rest, delim)
      no_fragment == SplitOnce(after, <<"#">>)
      no_query == SplitOnce(no_fragment[1], <<"?">>)
  IN  [scheme |-> scheme,
       netloc |-> netloc,
       path |-> no_query[1],
       query |-> IF Len(no_query) = 2 THEN no_query[2] ELSE EMPTY,
       fragment |-> IF Len(no_fragment) = 2 THEN no_fragment[2] ELSE EMPTY]

\* s.rpartition(sep)[2]
RECURSIVE AfterLast(_, _)
AfterLast(s, sep) ==
  IF Contains(s, sep) THEN AfterLast(From(s, Find(s, sep) + Len(sep)), sep) ELSE s

\* ParseResult.hostname, for hosts that are no bracketed addresses; None as the empty string
hostname(parsed) ==
  Lower(SplitOnce(AfterLast(parsed.netloc, <<"@">>), <<":">>)[1])

\* urllib.parse.urlunparse((scheme, netloc, path, "", query, ""))
urlunparse(scheme, netloc, path, query) ==
  LET rooted == IF path # EMPTY /\ Head(path) # "/" THEN <<"/">> \o path ELSE path
      with_netloc == IF netloc # EMPTY
                          \/ (scheme \in uses_netloc /\ ~StartsWith(path, <<"/","/">>))
                       THEN <<"/","/">> \o netloc \o rooted
                       ELSE path
      with_scheme == IF scheme # EMPTY THEN scheme \o <<":">> \o with_netloc ELSE with_netloc
  IN  IF query # EMPTY THEN with_scheme \o <<"?">> \o query ELSE with_scheme

\* the www prefix and the label separator
S_www == <<"w","w","w",".">>

\* strip_subdomain, removing only the first label as its docstring says
strip_subdomain_first_label(host) ==
  LET labels == Split(host, <<".">>)
  IN  IF Len(labels) > 2 THEN Join(Tail(labels), <<".">>) ELSE host

strip_subdomain(host) ==
  LET labels == Split(host, <<".">>)
  IN  IF Len(labels) > 2 THEN Join(SubSeq(labels, Len(labels) - 1, Len(labels)), <<".">>)
      ELSE host

\* config.aliases[host] when config.aliases has the key host, host otherwise
AliasOf(aliases, host) ==
  IF host \in DOMAIN aliases THEN aliases[host] ELSE host

\* host in canonicalize_url, of both versions
CanonicalHost(parsed, config) ==
  LET host == hostname(parsed)
      no_www == IF config.strip_www /\ StartsWith(host, S_www) THEN From(host, 4) ELSE host
      no_sub == IF config.strip_subdomain THEN strip_subdomain(no_www) ELSE no_www
  IN  AliasOf(config.aliases, no_sub)

\* the pairs of qs whose key is not in names
RECURSIVE WithoutKeys(_, _)
WithoutKeys(qs, names) ==
  IF qs = EMPTY THEN EMPTY
  ELSE (IF Head(qs)[1] \in names THEN EMPTY ELSE <<Head(qs)>>) \o WithoutKeys(Tail(qs), names)

\* core canonicalize_url, with the query parameters left in the order of the URL
canonicalize_url_keeping_order(url, config) ==
  IF url = EMPTY THEN url
  ELSE LET parsed == urlparse(url)
           query == IF config.strip_query_params = TRUE THEN EMPTY
                    ELSE urlencode(parse_qsl(parsed.query, TRUE))
       IN  Lower(urlunparse(parsed.scheme, CanonicalHost(parsed, config),
                            IF config.include_path THEN parsed.path ELSE EMPTY, query))

\* canonicalize_url of core/utils/normalize_url.py; strip_query_params is TRUE, FALSE or
\* the list of the names to strip as a record [names |-> set]
canonicalize_url(url, config) ==
  IF url = EMPTY THEN url
  ELSE LET parsed == urlparse(url)
           query ==
             IF config.strip_query_params = TRUE THEN EMPTY
             ELSE IF config.strip_query_params = FALSE
               THEN urlencode(SortedPairs(parse_qsl(parsed.query, TRUE)))
             ELSE urlencode(SortedPairs(WithoutKeys(parse_qsl(parsed.query, TRUE),
                                                    config.strip_query_params.names)))
       IN  Lower(urlunparse(parsed.scheme, CanonicalHost(parsed, config),
                            IF config.include_path THEN parsed.path ELSE EMPTY, query))

\* canonicalize_url of src/utils/normalize_url.py, the one src/clean_sources.py imports
src_canonicalize_url(url, config) ==
  IF url = EMPTY THEN url
  ELSE LET parsed == urlparse(url)
           query == IF config.strip_query_params = FALSE
                      THEN urlencode(parse_qsl(parsed.query, FALSE))
                      ELSE EMPTY
       IN  Lower(urlunparse(parsed.scheme, CanonicalHost(parsed, config),
                            IF config.include_path THEN parsed.path ELSE EMPTY, query))

\* a path at which no file exists, and a file holding content
NoFile == [exists |-> FALSE]

File(content) == [exists |-> TRUE, content |-> content]

EmptyDict == [t \in {} |-> 0]

(***************************************************************************)
(* The wiki: the eight perennial-sources subpages, their revisions and     *)
(* their wikitext                                                          *)
(***************************************************************************)
BASE_TITLE == "Wikipedia:Reliable_sources/Perennial_sources"

NumSubpages == 8

\* f"{BASE_TITLE}/{i}"
Title(n) == BASE_TITLE \o "/" \o ToString(n)

Titles == {Title(n) : n \in 1..NumSubpages}

\* the most edits of subpages in one behaviour
MaxEdits == 1

\* the most runs of the scripts in one behaviour
MaxRuns == 2

\* subpage 1 as in SAMPLE_WIKITEXT: the ABC News row and a row with too few cells
ABC_PAGE_GOOD ==
  <<"\n","|","-"," ","i","d","=","\"","a","\"","\n","|"," ","d","a","t","a","-","s","o","r","t",
    "-","v","a","l","u","e","=","\"","A","\""," ","|"," ","[","[","A","B","C"," ","N","e","w",
    "s"," ","(","U","S",")","]","]","\n","|"," ","{","{","S","|","g","r","}","}","\n","|"," ",
    "1","\n","|"," ","{","{","L","|","2","0","2","3","}","}","\n","|"," ","G","o","o","d","\n",
    "|","-"," ","i","d","=","\"","x","\"","\n","|"," ","[","[","B","r","o","k","e","n","]","]",
    "\n","|","}">>

\* subpage 1 with the ABC News status changed
ABC_PAGE_VANDALISED ==
  <<"\n","|","-"," ","i","d","=","\"","a","\"","\n","|"," ","d","a","t","a","-","s","o","r","t",
    "-","v","a","l","u","e","=","\"","A","\""," ","|"," ","[","[","A","B","C"," ","N","e","w",
    "s"," ","(","U","S",")","]","]","\n","|"," ","{","{","S","|","g","u","}","}","\n","|"," ",
    "1","\n","|"," ","{","{","L","|","2","0","2","3","}","}","\n","|"," ","G","o","o","d","\n",
    "|","-"," ","i","d","=","\"","x","\"","\n","|"," ","[","[","B","r","o","k","e","n","]","]",
    "\n","|","}">>

\* subpage 1 with the status written in long form
ABC_PAGE_LONG_STATUS ==
  <<"\n","|","-"," ","i","d","=","\"","a","\"","\n","|"," ","d","a","t","a","-","s","o","r","t",
    "-","v","a","l","u","e","=","\"","A","\""," ","|"," ","[","[","A","B","C"," ","N","e","w",
    "s"," ","(","U","S",")","]","]","\n","|"," ","{","{","S","|","G","e","n","e","r","a","l",
    "l","y"," ","r","e","l","i","a","b","l","e","}","}","\n","|"," ","1","\n","|"," ","{","{",
    "L","|","2","0","2","3","}","}","\n","|"," ","G","o","o","d","\n","|","-"," ","i","d","=",
    "\"","x","\"","\n","|"," ","[","[","B","r","o","k","e","n","]","]","\n","|","}">>

\* subpage 2 as in SAMPLE_WIKITEXT: the Daily Mail row
MAIL_PAGE ==
  <<"\n","|","-"," ","i","d","=","\"","d","\"","\n","|"," ","[","[","D","a","i","l","y"," ","M",
    "a","i","l"," ","(","M","a","i","l","O","n","l","i","n","e",")","]","]","\n","|"," ","{",
    "{","S","|","d","}","}","\n","|"," ","1","\n","|"," ","{","{","L","|","2","0","2","3","}",
    "}","\n","|"," ","T","a","b","l","o","i","d","\n","|","}">>

\* subpage 2 with a second row whose name repeats subpage 1's in lower case
MAIL_PAGE_WITH_DUPLICATE ==
  <<"\n","|","-"," ","i","d","=","\"","d","\"","\n","|"," ","[","[","D","a","i","l","y"," ","M",
    "a","i","l"," ","(","M","a","i","l","O","n","l","i","n","e",")","]","]","\n","|"," ","{",
    "{","S","|","d","}","}","\n","|"," ","1","\n","|"," ","{","{","L","|","2","0","2","3","}",
    "}","\n","|"," ","T","a","b","l","o","i","d","\n","|","-"," ","i","d","=","\"","b","\"",
    "\n","|"," ","a","b","c"," ","n","e","w","s"," ","(","u","s",")","\n","|"," ","{","{","S",
    "|","g","u","}","}","\n","|"," ","1","\n","|"," ","2","\n","|"," ","d","u","p","\n","|","}">>

\* a subpage without table rows
PLAIN_PAGE ==
  <<"S","e","e"," ","[","[","W","P",":","R","S","P","]","]",".">>

\* a subpage with one row whose status cell holds no template
EXAMPLE_PAGE ==
  <<"\n","|","-"," ","\n","|"," ","E","x","a","m","p","l","e","\n","|"," ","n","o","n","e","\n",
    "|"," ","1","\n","|"," ","2","\n","|"," ","n","\n","|","}">>

\* the wikitext of subpage n at revision r
WikiText(n, r) ==
  IF n = 1 THEN (IF r = 1 THEN ABC_PAGE_GOOD
                 ELSE IF r % 2 = 0 THEN ABC_PAGE_VANDALISED
                 ELSE ABC_PAGE_LONG_STATUS)
  ELSE IF n = 2 THEN (IF r = 1 THEN MAIL_PAGE ELSE MAIL_PAGE_WITH_DUPLICATE)
  ELSE IF r = 1 THEN PLAIN_PAGE ELSE EXAMPLE_PAGE

(***************************************************************************)
(* scripts/update_checker.py and the main of fetch_perennial_sources.py    *)
(***************************************************************************)
VARIABLES
  program,      \* the part of the repository a behaviour exercises
  script,       \* the script the current process runs
  pc,           \* the position of the process in main
  wiki,         \* title -> the latest revision ID of the subpage
  rev_file,     \* REV_FILE: NoFile, or the dict it holds
  json_file,    \* perennial_sources.json: NoFile, or its contents
  csv_file,     \* perennial_sources.csv: NoFile, or its contents
  prev_ids, new_ids, changed, i, entries,   \* main's and fetch_all's locals
  stdout,       \* what the current process has printed, the last line of the traceback
                \* of an exception that leaves main included
  content_revs, \* title -> the revision whose wikitext the wiki served to this process
  runs          \* the number of processes started

ucVars == <<pc, wiki, rev_file, json_file, csv_file, prev_ids, new_ids, changed, i,
            entries, stdout, content_revs, runs>>

perennialVars == <<script, ucVars>>

(***************************************************************************)
(* core/fetch_articles.py: state                                           *)
(***************************************************************************)
VARIABLES
  fa_pc,        \* the position of fetch_good_and_featured
  category,     \* the argument of the current call of _fetch_category_members
  params,       \* its request parameters
  titles,       \* its result so far
  requests,     \* the parameters of each request the call has sent (copies)
  responses,    \* the response the API gave to each
  good,         \* fetch_good_and_featured's locals
  featured,
  good_file,    \* output_dir/good_articles.json
  featured_file \* output_dir/featured_articles.json

articlesVars == <<fa_pc, category, params, titles, requests, responses, good, featured,
                  good_file, featured_file>>

IdleArticles ==
  /\ fa_pc = "idle"
  /\ category = ""
  /\ params = EmptyDict
  /\ titles = EMPTY
  /\ requests = EMPTY
  /\ responses = EMPTY
  /\ good = EMPTY
  /\ featured = EMPTY
  /\ good_file = NoFile
  /\ featured_file = NoFile

(***************************************************************************)
(* scripts/fetch_wikiproject_sources.py, parse_page: state                 *)
(***************************************************************************)
VARIABLES
  wp_pc,          \* the position of parse_page
  wikitext,       \* its argument
  lines,          \* wikitext.splitlines(), the list the iterator runs over
  pos,            \* the index in lines of the line the iterator yields next
  current_status, \* parse_page's local
  page_entries,   \* parse_page's entries
  origins         \* for each entry: the line it comes from, its kind and its row's class

pageVars == <<wp_pc, wikitext, lines, pos, current_status, page_entries, origins>>

IdlePage ==
  /\ wp_pc = "idle"
  /\ wikitext = EMPTY
  /\ lines = EMPTY
  /\ pos = 1
  /\ current_status = None
  /\ page_entries = EMPTY
  /\ origins = EMPTY

(***************************************************************************)
(* core/utils/normalize_url.py and src/clean_sources.py: state             *)
(***************************************************************************)
VARIABLES
  config,              \* the NormalizationConfig of the call
  nu_pc,               \* the position of the call of canonicalize_url
  url,                 \* its argument
  url_parts,           \* the parts the argument was written from
  canon,               \* its result
  cr_pc,               \* the position of clean_refs
  refs,                \* its argument
  ref_k,               \* the index of the ref its first loop handles next
  total_counter,       \* its Counter, as the list of its items in insertion order
  unique_per_article,  \* its defaultdict: article -> set of canonical URLs
  result               \* its result

urlVars == <<nu_pc, url, url_parts, canon>>

cleanVars == <<cr_pc, refs, ref_k, total_counter, unique_per_article, result>>

IdleUrl ==
  /\ nu_pc = "idle"
  /\ url = EMPTY
  /\ url_parts = EMPTY
  /\ canon = EMPTY

IdleClean ==
  /\ cr_pc = "idle"
  /\ refs = EMPTY
  /\ ref_k = 1
  /\ total_counter = EMPTY
  /\ unique_per_article = EmptyDict
  /\ result = EMPTY

(***************************************************************************)
(* src/fetch_wikitext.py: state                                            *)
(***************************************************************************)
VARIABLES
  fw_pc,         \* the position of fetch_wikitext
  article_list,  \* its argument
  fw_k,          \* the index of the title its loop handles next
  output_dir,    \* the files of output_dir: file name -> content
  fetched        \* title -> the content _fetch_single returned for it, latest call last

wikitextVars == <<fw_pc, article_list, fw_k, output_dir, fetched>>

IdleWikitext ==
  /\ fw_pc = "idle"
  /\ article_list = EMPTY
  /\ fw_k = 1
  /\ output_dir = EmptyDict
  /\ fetched = EmptyDict

(***************************************************************************)
(* scripts/fetch_perennial_sources.py, parse_row: state                    *)
(***************************************************************************)
VARIABLES
  pr_pc,   \* the position of the call of parse_row
  row,     \* its argument
  parsed   \* its result: a SourceEntry, or the exception raised

rowVars == <<pr_pc, row, parsed>>

IdleRow ==
  /\ pr_pc = "idle"
  /\ row = EMPTY
  /\ parsed = None

(***************************************************************************)
(* a single call of a function that touches no file and no network         *)
(* (clean_entries, rank_sources, strip_subdomain, _status_from_heading):   *)
(* state                                                                   *)
(***************************************************************************)
VARIABLES
  call_pc,      \* the position of the call: "idle", "returned"
  call_args,    \* its arguments, by parameter name
  call_return   \* the value it returned

callVars == <<call_pc, call_args, call_return>>

IdleCall ==
  /\ call_pc = "idle"
  /\ call_args = EmptyDict
  /\ call_return = None

\* the default NormalizationConfig; aliases None is the dict without keys, which
\* canonicalize_url treats alike
DefaultConfig ==
  [strip_www |-> TRUE, strip_subdomain |-> TRUE, include_path |-> FALSE,
   strip_query_params |-> TRUE, aliases |-> EmptyDict]

othersOfPerennial ==
  <<program, articlesVars, pageVars, config, urlVars, cleanVars, wikitextVars, rowVars,
    callVars>>

othersOfArticles ==
  <<program, perennialVars, pageVars, config, urlVars, cleanVars, wikitextVars, rowVars,
    callVars>>

othersOfPage ==
  <<program, perennialVars, articlesVars, config, urlVars, cleanVars, wikitextVars, rowVars,
    callVars>>

othersOfUrl ==
  <<program, perennialVars, articlesVars, pageVars, cleanVars, wikitextVars, rowVars,
    callVars>>

othersOfClean ==
  <<program, perennialVars, articlesVars, pageVars, urlVars, wikitextVars, rowVars,
    callVars>>

othersOfWikitext ==
  <<program, perennialVars, articlesVars, pageVars, config, urlVars, cleanVars, rowVars,
    callVars>>

othersOfRow ==
  <<program, perennialVars, articlesVars, pageVars, config, urlVars, cleanVars, wikitextVars,
    callVars>>

othersOfCall ==
  <<program, perennialVars, articlesVars, pageVars, config, urlVars, cleanVars, wikitextVars,
    rowVars>>

vars ==
  <<program, perennialVars, articlesVars, pageVars, config, urlVars, cleanVars, wikitextVars,
    rowVars,
    callVars>>

\* d[key] = value
Put(d, key, value) == [t \in DOMAIN d \cup {key} |-> IF t = key THEN value ELSE d[t]]

\* json.dump([asdict(e) for e in entries], fh)
JsonDump(es) == [format |-> "json", data |-> es]

\* csv.DictWriter: the header row and a row per entry, None written as the empty string
CsvDump(es) ==
  [format |-> "csv",
   header |-> <<"source_name", "reliability_status", "notes">>,
   rows |-> [k \in 1..Len(es) |->
               <<es[k].source_name,
                 IF es[k].reliability_status = None THEN EMPTY ELSE es[k].reliability_status,
                 IF es[k].notes = None THEN EMPTY ELSE es[k].notes>>]]

OldOutput == <<SourceEntry(<<"o","l","d">>, S_gr, <<"o","l","d">>)>>

\* the revision files a run may find: none, one saved when every subpage was at
\* revision 1, one saved before subpage 8 existed, one saved at an older revision
InitialRevFiles ==
  { NoFile,
    File([t \in Titles |-> 1]),
    File([t \in Titles \ {Title(NumSubpages)} |-> 1]),
    File([t \in Titles |-> IF t = Title(1) THEN 0 ELSE 1]) }

\* no process yet: the wiki at its first revisions, and no locals
NoProcess ==
  /\ script = "none"
  /\ pc = "idle"
  /\ wiki = [t \in Titles |-> 1]
  /\ prev_ids = EmptyDict
  /\ new_ids = EmptyDict
  /\ changed = FALSE
  /\ i = 1
  /\ entries = EMPTY
  /\ stdout = EMPTY
  /\ content_revs = EmptyDict
  /\ runs = 0

IdlePerennial ==
  /\ NoProcess
  /\ rev_file = NoFile /\ json_file = NoFile /\ csv_file = NoFile

Edits == LET RECURSIVE Sum(_)
             Sum(n) == IF n = 0 THEN 0 ELSE (wiki[Title(n)] - 1) + Sum(n - 1)
         IN  Sum(NumSubpages)

\* the subpages that are edited: the two with the sources validate_entries looks for,
\* and the first and the last of the other six, which are alike
EditedTitles == {Title(1), Title(2), Title(3), Title(NumSubpages)}

\* an editor saves a new revision of a subpage
WikiEdit ==
  /\ program = "perennial"
  /\ Edits < MaxEdits
  /\ \E t \in EditedTitles : wiki' = [wiki EXCEPT ![t] = @ + 1]
  /\ UNCHANGED <<script, pc, rev_file, json_file, csv_file, prev_ids, new_ids, changed,
                 i, entries, stdout, content_revs, runs>>
  /\ UNCHANGED othersOfPerennial

\* an exception leaves main: the locals of the process are gone
Unwound ==
  /\ prev_ids' = EmptyDict
  /\ new_ids' = EmptyDict
  /\ changed' = FALSE
  /\ i' = 1
  /\ entries' = EMPTY
  /\ content_revs' = EmptyDict

\* load_revision_ids()
load_revision_ids == IF rev_file.exists THEN rev_file.content ELSE EmptyDict

\* fetch_revision_id(title)
fetch_revision_id(title) == wiki[title]

\* update_checker.main starts: lines 61-63
MainStart ==
  /\ program = "perennial"
  /\ pc \in {"idle", "done", "failed"}
  /\ runs < MaxRuns
  /\ script' = "update_checker"
  /\ runs' = runs + 1
  /\ prev_ids' = load_revision_ids
  /\ new_ids' = EmptyDict
  /\ changed' = FALSE
  /\ i' = 1
  /\ entries' = EMPTY
  /\ stdout' = EMPTY
  /\ content_revs' = EmptyDict
  /\ pc' = "check"
  /\ UNCHANGED <<wiki, rev_file, json_file, csv_file>>
  /\ UNCHANGED othersOfPerennial

\* CheckRevision with line 69 replaced by `changed = prev_ids.get(title) != revid`:
\* the flag is overwritten, so that only the last subpage decides
CheckRevisionOverwritingChanged ==
  /\ program = "perennial"
  /\ script = "update_checker" /\ pc = "check"
  /\ LET title == Title(i)
         revid == fetch_revision_id(title)
     IN  /\ new_ids' = Put(new_ids, title, revid)
         /\ changed' = (title \notin DOMAIN prev_ids \/ prev_ids[title] # revid)
  /\ i' = i + 1
  /\ pc' = IF i = NumSubpages THEN "checked" ELSE "check"
  /\ UNCHANGED <<script, wiki, rev_file, json_file, csv_file, prev_ids, entries, stdout,
                 content_revs, runs>>
  /\ UNCHANGED othersOfPerennial

\* CheckRevision with line 69 looking the stored ID up by the loop index instead of
\* the title: prev_ids.get(i) is None for every subpage
CheckRevisionKeyedByIndex ==
  /\ program = "perennial"
  /\ script = "update_checker" /\ pc = "check"
  /\ LET title == Title(i)
         revid == fetch_revision_id(title)
     IN  /\ new_ids' = Put(new_ids, title, revid)
         /\ changed' = TRUE
  /\ i' = i + 1
  /\ pc' = IF i = NumSubpages THEN "checked" ELSE "check"
  /\ UNCHANGED <<script, wiki, rev_file, json_file, csv_file, prev_ids, entries, stdout,
                 content_revs, runs>>
  /\ UNCHANGED othersOfPerennial

\* one iteration of main's loop over the subpages: lines 65-70
CheckRevision ==
  /\ program = "perennial"
  /\ script = "update_checker" /\ pc = "check"
  /\ LET title == Title(i)
         revid == fetch_revision_id(title)
     IN  /\ new_ids' = Put(new_ids, title, revid)
         \* prev_ids.get(title) != revid: None differs from every revision ID
         /\ changed' = (changed \/ title \notin DOMAIN prev_ids \/ prev_ids[title] # revid)
  /\ i' = i + 1
  /\ pc' = IF i = NumSubpages THEN "checked" ELSE "check"
  /\ UNCHANGED <<script, wiki, rev_file, json_file, csv_file, prev_ids, entries, stdout, content_revs, runs>>
  /\ UNCHANGED othersOfPerennial

\* lines 72-74
NoUpdates ==
  /\ program = "perennial"
  /\ script = "update_checker" /\ pc = "checked" /\ ~changed
  /\ stdout' = Append(stdout, "No updates detected.")
  /\ pc' = "done"
  /\ UNCHANGED <<script, wiki, rev_file, json_file, csv_file, prev_ids, new_ids, changed,
                 i, entries, content_revs, runs>>
  /\ UNCHANGED othersOfPerennial

\* main calls fetch_all(): update_checker line 76, fetch_perennial_sources line 147
FetchAllStart ==
  /\ program = "perennial"
  /\ script = "update_checker" /\ pc = "checked" /\ changed
  /\ entries' = EMPTY
  /\ i' = 1
  /\ pc' = "fetch"
  /\ UNCHANGED <<script, wiki, rev_file, json_file, csv_file, prev_ids, new_ids, changed,
                 stdout, content_revs, runs>>
  /\ UNCHANGED othersOfPerennial

\* fetch_perennial_sources.main starts: it calls fetch_all()
PerennialMainStart ==
  /\ program = "perennial"
  /\ pc \in {"idle", "done", "failed"}
  /\ runs < MaxRuns
  /\ script' = "fetch_perennial_sources"
  /\ runs' = runs + 1
  /\ prev_ids' = EmptyDict
  /\ new_ids' = EmptyDict
  /\ changed' = FALSE
  /\ entries' = EMPTY
  /\ stdout' = EMPTY
  /\ content_revs' = EmptyDict
  /\ i' = 1
  /\ pc' = "fetch"
  /\ UNCHANGED <<wiki, rev_file, json_file, csv_file>>
  /\ UNCHANGED othersOfPerennial

\* fetch_subpage(title)
fetch_subpage(n) == WikiText(n, wiki[Title(n)])

\* one iteration of fetch_all's loop over the subpages: lines 148-155
FetchSubpage ==
  /\ program = "perennial"
  /\ script \in {"update_checker", "fetch_perennial_sources"} /\ pc = "fetch"
  /\ entries' = entries \o ParsedRows(extract_rows(fetch_subpage(i)))
  /\ content_revs' = Put(content_revs, Title(i), wiki[Title(i)])
  /\ i' = i + 1
  /\ pc' = IF i = NumSubpages THEN "clean" ELSE "fetch"
  /\ UNCHANGED <<script, wiki, rev_file, json_file, csv_file, prev_ids, new_ids, changed,
                 stdout, runs>>
  /\ UNCHANGED othersOfPerennial

\* a request raises (requests.get or raise_for_status): the process ends
RequestFails ==
  /\ program = "perennial"
  /\ script \in {"update_checker", "fetch_perennial_sources"}
  /\ pc \in {"check", "fetch"}
  /\ pc' = "failed"
  /\ stdout' = Append(stdout, "requests.exceptions.RequestException")
  /\ Unwound
  /\ UNCHANGED <<script, wiki, rev_file, json_file, csv_file, runs>>
  /\ UNCHANGED othersOfPerennial

\* CleanAndValidate with save_revision_ids(new_ids) moved up, before the outputs are
\* written
CleanAndValidateSavingRevisionIds ==
  /\ program = "perennial"
  /\ script \in {"update_checker", "fetch_perennial_sources"} /\ pc = "clean"
  /\ IF validate_entries(clean_entries(entries))
       THEN /\ entries' = clean_entries(entries)
            /\ stdout' = Append(stdout, <<"Fetched", ToString(Len(entries')), "sources">>)
            /\ pc' = "save_json"
            /\ rev_file' = IF script = "update_checker" THEN File(new_ids) ELSE rev_file
            /\ UNCHANGED <<prev_ids, new_ids, changed, i, content_revs>>
       ELSE /\ stdout' = Append(stdout, "ValueError: Validation failed")
            /\ pc' = "failed"
            /\ rev_file' = rev_file
            /\ Unwound
  /\ UNCHANGED <<script, wiki, json_file, csv_file, runs>>
  /\ UNCHANGED othersOfPerennial

\* clean_entries, validate_entries and the print: update_checker lines 77-79
CleanAndValidate ==
  /\ program = "perennial"
  /\ script \in {"update_checker", "fetch_perennial_sources"} /\ pc = "clean"
  /\ IF validate_entries(clean_entries(entries))
       THEN /\ entries' = clean_entries(entries)
            /\ stdout' = Append(stdout, <<"Fetched", ToString(Len(entries')), "sources">>)
            /\ pc' = "save_json"
            /\ UNCHANGED <<prev_ids, new_ids, changed, i, content_revs>>
       ELSE /\ stdout' = Append(stdout, "ValueError: Validation failed")
            /\ pc' = "failed"
            /\ Unwound
  /\ UNCHANGED <<script, wiki, rev_file, json_file, csv_file, runs>>
  /\ UNCHANGED othersOfPerennial

\* save_to_json(entries, "perennial_sources.json")
SaveToJson ==
  /\ program = "perennial"
  /\ script \in {"update_checker", "fetch_perennial_sources"} /\ pc = "save_json"
  /\ json_file' = File(JsonDump(entries))
  /\ pc' = "save_csv"
  /\ UNCHANGED <<script, wiki, rev_file, csv_file, prev_ids, new_ids, changed, i, entries,
                 stdout, content_revs, runs>>
  /\ UNCHANGED othersOfPerennial

\* save_to_csv(entries, "perennial_sources.csv")
SaveToCsv ==
  /\ program = "perennial"
  /\ script \in {"update_checker", "fetch_perennial_sources"} /\ pc = "save_csv"
  /\ csv_file' = File(CsvDump(entries))
  /\ pc' = IF script = "update_checker" THEN "save_rev" ELSE "done"
  /\ UNCHANGED <<script, wiki, rev_file, json_file, prev_ids, new_ids, changed, i, entries,
                 stdout, content_revs, runs>>
  /\ UNCHANGED othersOfPerennial

\* the file open(path, "w") leaves when the dump raises after it: there, and cut short
Truncated(format) == [format |-> format, data |-> EMPTY, complete |-> FALSE]

\* save_to_json or save_to_csv raises (OSError): either open raised and the file is as
\* it was, or the dump raised and the file is cut short; the process ends
SaveFails ==
  /\ program = "perennial"
  /\ script \in {"update_checker", "fetch_perennial_sources"}
  /\ pc \in {"save_json", "save_csv"}
  /\ \E opened \in BOOLEAN :
       IF pc = "save_json"
         THEN /\ json_file' = IF opened THEN File(Truncated("json")) ELSE json_file
              /\ csv_file' = csv_file
         ELSE /\ csv_file' = IF opened THEN File(Truncated("csv")) ELSE csv_file
              /\ json_file' = json_file
  /\ pc' = "failed"
  /\ stdout' = Append(stdout, "OSError")
  /\ Unwound
  /\ UNCHANGED <<script, wiki, rev_file, runs>>
  /\ UNCHANGED othersOfPerennial

\* SaveRevisionIds storing the revision IDs of the moment of the save, not those of
\* the check
SaveRevisionIdsFetchedAnew ==
  /\ program = "perennial"
  /\ script = "update_checker" /\ pc = "save_rev"
  /\ rev_file' = File(wiki)
  /\ pc' = "done"
  /\ UNCHANGED <<script, wiki, json_file, csv_file, prev_ids, new_ids, changed, i, entries,
                 stdout, content_revs, runs>>
  /\ UNCHANGED othersOfPerennial

\* save_revision_ids(new_ids)
SaveRevisionIds ==
  /\ program = "perennial"
  /\ script = "update_checker" /\ pc = "save_rev"
  /\ rev_file' = File(new_ids)
  /\ pc' = "done"
  /\ UNCHANGED <<script, wiki, json_file, csv_file, prev_ids, new_ids, changed, i, entries,
                 stdout, content_revs, runs>>
  /\ UNCHANGED othersOfPerennial

\* the perennial-sources scripts start with any of the revision files, and with no
\* output files or with those of an earlier run
InitUC ==
  /\ program = "perennial"
  /\ NoProcess
  /\ rev_file \in InitialRevFiles
  /\ \/ json_file = NoFile /\ csv_file = NoFile
     \/ json_file = File(JsonDump(OldOutput)) /\ csv_file = File(CsvDump(OldOutput))
  /\ IdleArticles /\ IdlePage /\ config = DefaultConfig /\ IdleUrl /\ IdleClean
  /\ IdleWikitext /\ IdleRow /\ IdleCall

NextUC ==
  \/ WikiEdit
  \/ MainStart
  \/ CheckRevision
  \/ NoUpdates
  \/ FetchAllStart
  \/ PerennialMainStart
  \/ FetchSubpage
  \/ RequestFails
  \/ CleanAndValidate
  \/ SaveToJson
  \/ SaveToCsv
  \/ SaveFails
  \/ SaveRevisionIds

SpecUC == InitUC /\ [][NextUC]_vars

(***************************************************************************)
(* Claims about update_checker.main                                        *)
(***************************************************************************)
\* every fetched revision ID equals the ID the revision file stores for its title
FetchedEqualStored ==
  /\ DOMAIN new_ids = Titles
  /\ rev_file.exists
  /\ \A t \in Titles : t \in DOMAIN rev_file.content /\ rev_file.content[t] = new_ids[t]

\* the entries fetch_all, clean_entries make of the wikitext the wiki served
RECURSIVE ServedRows(_)
ServedRows(n) ==
  IF n = 0 THEN EMPTY
  ELSE ServedRows(n - 1) \o ParsedRows(extract_rows(WikiText(n, content_revs[Title(n)])))

\* C1: in update_checker.main, when the revision ID fetched for each of the 8
\* subpages equals the ID stored for its title in the revision file, the next step
\* of main prints "No updates detected." and returns: no subpage content is
\* requested, and perennial_sources.json, perennial_sources.csv and the revision
\* file stay as they were.
C1_NoChangeNoRegeneration ==
  [][(script = "update_checker" /\ pc = "checked" /\ FetchedEqualStored /\ pc' # pc)
       => /\ pc' = "done"
          /\ stdout' = <<"No updates detected.">>
          /\ content_revs' = EmptyDict
          /\ UNCHANGED <<rev_file, json_file, csv_file>>]_vars

\* a run of update_checker has returned after finding every stored ID current,
\* with output files from an earlier run in place
C1_Witness ==
  /\ script = "update_checker" /\ pc = "done"
  /\ FetchedEqualStored
  /\ stdout = <<"No updates detected.">>
  /\ json_file.exists /\ csv_file.exists

\* some fetched revision ID differs from the stored one (an absent title differs)
FetchedDiffersFromLoaded ==
  \E t \in Titles : t \notin DOMAIN prev_ids \/ prev_ids[t] # new_ids[t]

\* C2: when update_checker.main has returned and some fetched revision ID differed
\* from the stored one, the run fetched the wikitext of all 8 subpages, both
\* output files hold the cleaned entries of that wikitext, which passed
\* validate_entries, and the revision file holds exactly the 8 fetched IDs, each a
\* revision of its title.
C2_ChangeRegenerates ==
  (script = "update_checker" /\ pc = "done" /\ DOMAIN new_ids = Titles
     /\ FetchedDiffersFromLoaded)
    => /\ DOMAIN content_revs = Titles
       /\ LET cleaned == clean_entries(ServedRows(NumSubpages))
          IN  /\ validate_entries(cleaned)
              /\ json_file = File(JsonDump(cleaned))
              /\ csv_file = File(CsvDump(cleaned))
       /\ rev_file = File(new_ids)
       /\ \A t \in Titles : new_ids[t] \in 1..wiki[t]

\* a run has regenerated the outputs because only the last title was missing from
\* the revision file
C2_Witness ==
  /\ script = "update_checker" /\ pc = "done"
  /\ DOMAIN prev_ids = Titles \ {Title(NumSubpages)}
  /\ \A t \in DOMAIN prev_ids : prev_ids[t] = new_ids[t]
  /\ rev_file = File(new_ids)
  /\ Len(json_file.content.data) = 2

(***************************************************************************)
(* C14: update_checker.main writes the revision file last                  *)
(***************************************************************************)
\* the revision file f stores, for some title, no ID or another ID than ids
StoredDiffers(f, ids) ==
  ~f.exists \/ \E t \in Titles : t \notin DOMAIN f.content \/ f.content[t] # ids[t]

\* a step of update_checker.main in which an exception leaves main after the loop
\* over the revision IDs: from fetch_all, validate_entries or a save
RaisesAfterCheck ==
  /\ script = "update_checker"
  /\ pc \in {"fetch", "clean", "save_json", "save_csv"}
  /\ pc' = "failed"

\* C14: the revision file is written only by save_revision_ids, as the last step of a
\* run of update_checker.main, when perennial_sources.json and perennial_sources.csv
\* hold the entries of that run; a step in which fetch_revision_id, fetch_all,
\* validate_entries or a save raises leaves the revision file as it was, so that it
\* still differs from the revision IDs the run fetched; and a run that has fetched the
\* IDs finds a change exactly when the revision file differs from them, and then
\* goes on to fetch_all
C14_RevisionFileWrittenLast ==
  /\ [][rev_file' # rev_file =>
          /\ script = "update_checker" /\ pc = "save_rev" /\ pc' = "done"
          /\ json_file = File(JsonDump(entries))
          /\ csv_file = File(CsvDump(entries))
          /\ rev_file' = File(new_ids)]_vars
  /\ [][(script = "update_checker" /\ pc # "failed" /\ pc' = "failed") =>
          rev_file' = rev_file]_vars
  /\ [][RaisesAfterCheck => StoredDiffers(rev_file', new_ids)]_vars
  /\ []((script = "update_checker" /\ pc = "checked") =>
          (changed <=> StoredDiffers(rev_file, new_ids)))
  /\ [][(script = "update_checker" /\ pc = "checked" /\ changed /\ pc' # pc) =>
          pc' = "fetch"]_vars

\* a second run, of update_checker, failed in a save after a subpage was edited: the
\* revision file still holds the IDs from before the edit
C14_Witness ==
  /\ script = "update_checker" /\ pc = "failed" /\ runs = MaxRuns
  /\ json_file = File(Truncated("json"))
  /\ rev_file = File([t \in Titles |-> 1])
  /\ \E t \in Titles : wiki[t] > 1

(***************************************************************************)
(* C16: update_checker.main and edits made while it runs                   *)
(***************************************************************************)
\* runs of update_checker alone, from a directory without files
InitChecker ==
  /\ program = "perennial"
  /\ NoProcess
  /\ rev_file = NoFile /\ json_file = NoFile /\ csv_file = NoFile
  /\ IdleArticles /\ IdlePage /\ config = DefaultConfig /\ IdleUrl /\ IdleClean
  /\ IdleWikitext /\ IdleRow /\ IdleCall

NextChecker ==
  \/ WikiEdit
  \/ MainStart
  \/ CheckRevision
  \/ NoUpdates
  \/ FetchAllStart
  \/ FetchSubpage
  \/ RequestFails
  \/ CleanAndValidate
  \/ SaveToJson
  \/ SaveToCsv
  \/ SaveFails
  \/ SaveRevisionIds

SpecChecker == InitChecker /\ [][NextChecker]_vars

\* the revisions of the first n subpages that are not older than the stored ones
RECURSIVE StoredOrNewer(_)
StoredOrNewer(n) ==
  IF n = 0 THEN {EmptyDict}
  ELSE {Put(c, Title(n), r) : c \in StoredOrNewer(n - 1),
                              r \in rev_file.content[Title(n)]..wiki[Title(n)]}

\* the cleaned entries of the subpages at the revisions revs
RECURSIVE RowsAt(_, _)
RowsAt(revs, n) ==
  IF n = 0 THEN EMPTY
  ELSE RowsAt(revs, n - 1) \o ParsedRows(extract_rows(WikiText(n, revs[Title(n)])))

EntriesAt(revs) == clean_entries(RowsAt(revs, NumSubpages))

\* C16: between the runs of update_checker, with subpages edited at any moment, once
\* the revision file exists both output files exist and each of them, unless a save
\* that raised cut it short, holds the entries of revisions of the subpages none of
\* which is older than the stored one; and when a run has reported no update, both
\* hold the entries of the same such revisions
C16_StoredNeverNewer ==
  (script \in {"none", "update_checker"} /\ pc \in {"idle", "done", "failed"}
     /\ rev_file.exists) =>
    /\ DOMAIN rev_file.content = Titles
    /\ json_file.exists /\ csv_file.exists
    /\ \/ json_file = File(Truncated("json"))
       \/ \E c \in StoredOrNewer(NumSubpages) : json_file = File(JsonDump(EntriesAt(c)))
    /\ \/ csv_file = File(Truncated("csv"))
       \/ \E c \in StoredOrNewer(NumSubpages) : csv_file = File(CsvDump(EntriesAt(c)))
    /\ (pc = "done" /\ ~changed) =>
         \E c \in StoredOrNewer(NumSubpages) :
           /\ json_file = File(JsonDump(EntriesAt(c)))
           /\ csv_file = File(CsvDump(EntriesAt(c)))

\* a run has regenerated the outputs from a revision newer than the one it stored: the
\* subpage was edited between the check and the fetch
C16_Witness ==
  /\ script = "update_checker" /\ pc = "done" /\ changed
  /\ rev_file = File(new_ids)
  /\ \E t \in Titles : new_ids[t] < content_revs[t]
  /\ json_file = File(JsonDump(EntriesAt(content_revs)))

(***************************************************************************)
(* C18: fetch_all skips the rows parse_row raises on                       *)
(***************************************************************************)
\* the rows of the first n subpages as the wiki served them, in order
RECURSIVE RawRows(_)
RawRows(n) ==
  IF n = 0 THEN EMPTY
  ELSE RawRows(n - 1) \o extract_rows(WikiText(n, content_revs[Title(n)]))

\* the positions in rows of the rows parse_row returns an entry for
Parsing(rows) == {k \in 1..Len(rows) : ~IsRaised(parse_row(rows[k]))}

\* C18: when fetch_all has returned, its list holds exactly the entries of the fetched
\* rows that parse_row returned an entry for, in the order of the subpages and, within
\* a subpage, of the rows; the rows parse_row raised on (ValueError for fewer than
\* five cells) are left out, and no exception but that of a request leaves fetch_all
C18_MalformedRowsSkipped ==
  /\ []((script \in {"update_checker", "fetch_perennial_sources"} /\ pc = "clean") =>
          LET rows == RawRows(NumSubpages)
              parsing == Parsing(rows)
          IN  /\ Len(entries) = Cardinality(parsing)
              /\ \A k \in parsing :
                   entries[Cardinality({j \in parsing : j <= k})] = parse_row(rows[k]))
  /\ [][(pc = "fetch" /\ pc' = "failed") =>
          stdout' = Append(stdout, "requests.exceptions.RequestException")]_vars

\* fetch_all has returned after it skipped a row of fewer than five cells and
\* parsed a row that came later
C18_Witness ==
  /\ script \in {"update_checker", "fetch_perennial_sources"} /\ pc = "clean"
  /\ LET rows == RawRows(NumSubpages)
     IN  \E j, k \in 1..Len(rows) :
           /\ j < k
           /\ parse_row(rows[j]) = Raised("ValueError")
           /\ k \in Parsing(rows)
           /\ entries[Len(entries)] = parse_row(rows[k])

(***************************************************************************)
(* core/fetch_articles.py                                                  *)
(***************************************************************************)
\* the most requests one call of _fetch_category_members sends before the API
\* ends the listing
MaxRequests == 3

\* the members a response may list: ns 0, another namespace, no "ns" key
Member(title, ns) == [title |-> title, ns |-> ns]

MemberLists ==
  { <<Member("A", 0), Member("Talk:B", 1)>>,
    <<[title |-> "D"], Member("C", 0)>> }

\* the "continue" objects a response may carry; the empty one is falsy
Continuations ==
  { EmptyDict,
    [cmcontinue |-> "token", continue |-> "-||"],
    [continue |-> "-||"] }

\* the responses of the API: with or without "query", with or without "continue"
Responses ==
  {[query |-> [categorymembers |-> ms]] : ms \in MemberLists}
    \cup {[query |-> [categorymembers |-> ms], continue |-> c] :
            ms \in MemberLists, c \in Continuations}
    \cup {[continue |-> [cmcontinue |-> "token", continue |-> "-||"]], EmptyDict}

\* data.get("query", {}).get("categorymembers", [])
MembersOf(data) ==
  IF "query" \in DOMAIN data /\ "categorymembers" \in DOMAIN data.query
    THEN data.query.categorymembers
    ELSE EMPTY

\* [m["title"] for m in members if m.get("ns") == 0]
RECURSIVE ArticleTitles(_)
ArticleTitles(members) ==
  IF members = EMPTY THEN EMPTY
  ELSE (IF "ns" \in DOMAIN Head(members) /\ Head(members).ns = 0
          THEN <<Head(members).title>> ELSE EMPTY) \o ArticleTitles(Tail(members))

\* cont = data.get("continue"), with None as the empty (falsy) dict
ContOf(data) == IF "continue" \in DOMAIN data THEN data.continue ELSE EmptyDict

\* not cont
NotCont(data) == ContOf(data) = EmptyDict

\* params.update(cont)
Update(d, cont) ==
  [k \in DOMAIN d \cup DOMAIN cont |-> IF k \in DOMAIN cont THEN cont[k] ELSE d[k]]

\* lines 18-25: the parameters of the first request
BaseParams(cat) ==
  [action |-> "query", list |-> "categorymembers", cmtitle |-> "Category:" \o cat,
   cmlimit |-> "max", format |-> "json"]

\* fetch_good_and_featured calls _fetch_category_members("Good articles")
CallGood ==
  /\ program = "fetch_articles" /\ fa_pc = "idle"
  /\ category' = "Good articles"
  /\ params' = BaseParams("Good articles")
  /\ titles' = EMPTY
  /\ requests' = EMPTY
  /\ responses' = EMPTY
  /\ fa_pc' = "good"
  /\ UNCHANGED <<good, featured, good_file, featured_file>>
  /\ UNCHANGED othersOfArticles

\* Request without line 38: the continuation parameters are never merged into params
RequestWithoutUpdate ==
  /\ program = "fetch_articles" /\ fa_pc \in {"good", "featured"}
  /\ \E data \in Responses :
       /\ Len(requests) + 1 >= MaxRequests => NotCont(data)
       /\ requests' = Append(requests, params)
       /\ responses' = Append(responses, data)
       /\ titles' = titles \o ArticleTitles(MembersOf(data))
       /\ IF NotCont(data)
            THEN fa_pc' = (IF fa_pc = "good" THEN "good_returned" ELSE "featured_returned")
            ELSE fa_pc' = fa_pc
       /\ params' = params
  /\ UNCHANGED <<category, good, featured, good_file, featured_file>>
  /\ UNCHANGED othersOfArticles

\* one iteration of the loop of _fetch_category_members: lines 27-38
Request ==
  /\ program = "fetch_articles" /\ fa_pc \in {"good", "featured"}
  /\ \E data \in Responses :
       \* the API ends every listing: the last request allowed gets no continuation
       /\ Len(requests) + 1 >= MaxRequests => NotCont(data)
       /\ requests' = Append(requests, params)
       /\ responses' = Append(responses, data)
       /\ titles' = titles \o ArticleTitles(MembersOf(data))
       /\ IF NotCont(data)
            THEN /\ params' = params
                 /\ fa_pc' = (IF fa_pc = "good" THEN "good_returned" ELSE "featured_returned")
            ELSE /\ params' = Update(params, ContOf(data))
                 /\ fa_pc' = fa_pc
  /\ UNCHANGED <<category, good, featured, good_file, featured_file>>
  /\ UNCHANGED othersOfArticles

\* a request raises: fetch_good_and_featured ends without writing
ArticlesRequestFails ==
  /\ program = "fetch_articles" /\ fa_pc \in {"good", "featured"}
  /\ fa_pc' = "failed"
  /\ category' = ""
  /\ params' = EmptyDict
  /\ titles' = EMPTY
  /\ requests' = EMPTY
  /\ responses' = EMPTY
  /\ good' = EMPTY
  /\ UNCHANGED <<featured, good_file, featured_file>>
  /\ UNCHANGED othersOfArticles

\* good = the first call's result; then _fetch_category_members("Featured articles")
CallFeatured ==
  /\ program = "fetch_articles" /\ fa_pc = "good_returned"
  /\ good' = titles
  /\ category' = "Featured articles"
  /\ params' = BaseParams("Featured articles")
  /\ titles' = EMPTY
  /\ requests' = EMPTY
  /\ responses' = EMPTY
  /\ fa_pc' = "featured"
  /\ UNCHANGED <<featured, good_file, featured_file>>
  /\ UNCHANGED othersOfArticles

\* featured = the second call's result; lines 47-50 write both lists
WriteLists ==
  /\ program = "fetch_articles" /\ fa_pc = "featured_returned"
  /\ featured' = titles
  /\ good_file' = File(good)
  /\ featured_file' = File(titles)
  /\ fa_pc' = "written"
  \* the second call's frame is gone
  /\ category' = ""
  /\ params' = EmptyDict
  /\ titles' = EMPTY
  /\ requests' = EMPTY
  /\ responses' = EMPTY
  /\ UNCHANGED good
  /\ UNCHANGED othersOfArticles

InitArticles ==
  /\ program = "fetch_articles"
  /\ IdleArticles
  /\ IdlePerennial /\ IdlePage /\ config = DefaultConfig /\ IdleUrl /\ IdleClean
  /\ IdleWikitext /\ IdleRow /\ IdleCall

NextArticles ==
  \/ CallGood
  \/ Request
  \/ ArticlesRequestFails
  \/ CallFeatured
  \/ WriteLists

SpecArticles == InitArticles /\ [][NextArticles]_vars

(***************************************************************************)
(* Claims about _fetch_category_members                                    *)
(***************************************************************************)
\* the current call of _fetch_category_members has returned
CallReturned == program = "fetch_articles" /\ fa_pc \in {"good_returned", "featured_returned"}

\* among the responses of the call, exactly the last has no "continue" key
OnlyLastLacksContinue ==
  /\ responses # EMPTY
  /\ \A k \in 1..Len(responses) : ("continue" \in DOMAIN responses[k]) <=> (k < Len(responses))

\* the titles of the members of namespace 0 in the first n responses, in order
RECURSIVE Ns0Titles(_)
Ns0Titles(n) ==
  IF n = 0 THEN EMPTY
  ELSE LET ms == IF "query" \in DOMAIN responses[n]
                   THEN responses[n].query.categorymembers ELSE EMPTY
           ns0 == SelectSeq(ms, LAMBDA mem : "ns" \in DOMAIN mem /\ mem.ns = 0)
       IN  Ns0Titles(n - 1) \o [k \in 1..Len(ns0) |-> ns0[k].title]

\* C3: when a call of _fetch_category_members has returned and, of the responses
\* it received, only the last one lacks a "continue" object, then it sent one
\* request per response, the first request carried no continuation parameter,
\* each later request carried every continuation parameter of the response
\* received just before it, and the result is the concatenation, in response
\* order, of the titles of exactly the members with ns = 0.
C3_Pagination ==
  (CallReturned /\ OnlyLastLacksContinue)
    => /\ Len(requests) = Len(responses)
       /\ requests[1] = BaseParams(category)
       /\ DOMAIN requests[1] \cap {"continue", "cmcontinue"} = {}
       /\ \A k \in 2..Len(requests) :
            \A key \in DOMAIN responses[k - 1].continue :
              key \in DOMAIN requests[k] /\ requests[k][key] = responses[k - 1].continue[key]
       /\ titles = Ns0Titles(Len(responses))

\* a call has returned after three pages, dropping a member outside namespace 0
C3_Witness ==
  /\ CallReturned /\ OnlyLastLacksContinue
  /\ Len(responses) = 3
  /\ "cmcontinue" \in DOMAIN requests[2]
  /\ titles = <<"A", "C", "A">>

(***************************************************************************)
(* core/fetch_articles.py, _fetch_category_members when the API may go on  *)
(* continuing a listing                                                    *)
(***************************************************************************)
\* the number of requests of one call the model follows
MaxPages == 3

\* the loop of Iteration, leaving after its second request whatever the response
IterationCapped ==
  /\ program = "fetch_articles" /\ fa_pc \in {"good", "featured"}
  /\ Len(requests) < MaxPages
  /\ \E data \in Responses :
       /\ requests' = Append(requests, params)
       /\ responses' = Append(responses, data)
       /\ titles' = titles \o ArticleTitles(MembersOf(data))
       /\ IF NotCont(data) \/ Len(requests) >= 1
            THEN /\ params' = params
                 /\ fa_pc' = (IF fa_pc = "good" THEN "good_returned" ELSE "featured_returned")
            ELSE /\ params' = Update(params, ContOf(data))
                 /\ fa_pc' = fa_pc
  /\ UNCHANGED <<category, good, featured, good_file, featured_file>>
  /\ UNCHANGED othersOfArticles

\* one iteration of the loop of _fetch_category_members, lines 27-38, with any response
Iteration ==
  /\ program = "fetch_articles" /\ fa_pc \in {"good", "featured"}
  /\ Len(requests) < MaxPages
  /\ \E data \in Responses :
       /\ requests' = Append(requests, params)
       /\ responses' = Append(responses, data)
       /\ titles' = titles \o ArticleTitles(MembersOf(data))
       /\ IF NotCont(data)
            THEN /\ params' = params
                 /\ fa_pc' = (IF fa_pc = "good" THEN "good_returned" ELSE "featured_returned")
            ELSE /\ params' = Update(params, ContOf(data))
                 /\ fa_pc' = fa_pc
  /\ UNCHANGED <<category, good, featured, good_file, featured_file>>
  /\ UNCHANGED othersOfArticles

NextMembers ==
  \/ CallGood
  \/ Iteration
  \/ ArticlesRequestFails
  \/ CallFeatured
  \/ WriteLists

SpecMembers == InitArticles /\ [][NextMembers]_vars

\* every request is answered or raises in the end (timeout=10)
SpecMembersFair == SpecMembers /\ WF_vars(Iteration)

(***************************************************************************)
(* C17: when _fetch_category_members ends                                  *)
(***************************************************************************)
\* a call of _fetch_category_members is in its loop
InLoop == program = "fetch_articles" /\ fa_pc \in {"good", "featured"}

\* the k-th response of the call carries a "continue" object that is not empty
Continues(k) == ~NotCont(responses[k])

\* C17: a call of _fetch_category_members whose requests are answered has returned
\* exactly when it has received a response without a non-empty "continue" object; it
\* has sent one request per response, and every response before the last one carried
\* such an object; while it is in the loop it goes on with a further request, after
\* however many requests, so that it never returns when every response carries one
C17_EndsWithFirstFinalResponse ==
  /\ []((InLoop \/ CallReturned) =>
          /\ CallReturned <=> (responses # EMPTY /\ ~Continues(Len(responses)))
          /\ Len(requests) = Len(responses)
          /\ \A k \in 1..(Len(responses) - 1) : Continues(k))
  /\ []((InLoop /\ Len(requests) < MaxPages) => ENABLED (Iteration /\ fa_pc' = fa_pc))
  /\ \A n \in 0..(MaxPages - 1) :
       (InLoop /\ Len(requests) = n) ~> ~(InLoop /\ Len(requests) = n)

\* a call still in its loop after MaxPages responses, each of which carried a
\* "continue" object
C17_Witness ==
  /\ InLoop
  /\ Len(responses) = MaxPages
  /\ \A k \in 1..Len(responses) : Continues(k)

(***************************************************************************)
(* scripts/fetch_wikiproject_sources.py, parse_page: one action per        *)
(* iteration of its loop                                                   *)
(***************************************************************************)
\* parse_page is called: its locals are set up
ParsePage ==
  /\ program = "fetch_wikiproject_sources"
  /\ wp_pc = "idle"
  /\ page_entries' = EMPTY
  /\ origins' = EMPTY
  /\ current_status' = None
  /\ lines' = splitlines(wikitext)
  /\ pos' = 1
  /\ wp_pc' = "loop"
  /\ UNCHANGED wikitext
  /\ UNCHANGED othersOfPage

\* stripped, for the line the iterator yields next
Stripped == IF pos <= Len(lines) THEN Strip(lines[pos]) ELSE EMPTY

\* the heading branch, with a heading that names no status clearing current_status
ParseHeadingResetting ==
  /\ program = "fetch_wikiproject_sources"
  /\ wp_pc = "loop"
  /\ pos <= Len(lines)
  /\ StartsWith(Stripped, <<"=">>)
  /\ current_status' = _status_from_heading(Strip(HeadingText(Stripped)))
  /\ pos' = pos + 1
  /\ UNCHANGED <<wp_pc, wikitext, lines, page_entries, origins>>
  /\ UNCHANGED othersOfPage

\* the heading branch
ParseHeading ==
  /\ program = "fetch_wikiproject_sources"
  /\ wp_pc = "loop"
  /\ pos <= Len(lines)
  /\ StartsWith(Stripped, <<"=">>)
  /\ LET heading == Strip(HeadingText(Stripped))
         status == _status_from_heading(heading)
     IN  current_status' = IF status # None /\ status # EMPTY THEN status ELSE current_status
  /\ pos' = pos + 1
  /\ UNCHANGED <<wp_pc, wikitext, lines, page_entries, origins>>
  /\ UNCHANGED othersOfPage

\* the index of the last line the inner loop over the table's lines consumes
TableEnd ==
  LET closing == {k \in (pos + 1)..Len(lines) : StartsWith(Strip(lines[k]), S_table_close)}
  IN  IF closing = {} THEN Len(lines) ELSE CHOOSE k \in closing : \A j \in closing : k <= j

\* for each entry of the table that starts at the current line: where it comes from
RECURSIVE RowOrigins(_)
RowOrigins(rows) ==
  IF rows = EMPTY THEN EMPTY
  ELSE << [line |-> pos, kind |-> "table", class |-> ClassValue(Head(rows).attrs)] >>
       \o RowOrigins(Tail(rows))

\* the table branch with an inner loop that does not advance the iterator of the
\* outer one: the lines after the opening line are read again
ParseTableRereadingLines ==
  /\ program = "fetch_wikiproject_sources"
  /\ wp_pc = "loop"
  /\ pos <= Len(lines)
  /\ ~StartsWith(Stripped, <<"=">>)
  /\ StartsWith(Stripped, S_table_open)
  /\ LET table_lines == SubSeq(lines, pos, TableEnd)
         table_text == Join(table_lines, <<"\n">>)
     IN  /\ page_entries' = page_entries \o _parse_table(table_text, current_status)
         /\ origins' = origins \o RowOrigins(EntryRows(TableRows(table_text)))
  /\ pos' = pos + 1
  /\ UNCHANGED <<wp_pc, wikitext, lines, current_status>>
  /\ UNCHANGED othersOfPage

\* the table branch
ParseTable ==
  /\ program = "fetch_wikiproject_sources"
  /\ wp_pc = "loop"
  /\ pos <= Len(lines)
  /\ ~StartsWith(Stripped, <<"=">>)
  /\ StartsWith(Stripped, S_table_open)
  /\ LET table_lines == SubSeq(lines, pos, TableEnd)
         table_text == Join(table_lines, <<"\n">>)
     IN  /\ page_entries' = page_entries \o _parse_table(table_text, current_status)
         /\ origins' = origins \o RowOrigins(EntryRows(TableRows(table_text)))
  /\ pos' = TableEnd + 1
  /\ UNCHANGED <<wp_pc, wikitext, lines, current_status>>
  /\ UNCHANGED othersOfPage

\* prefix and prefix[0] in "*#"
IsListItem ==
  LET marker == LStripChars(Stripped, {"#", ":", "*"})
      prefix == Upto(Stripped, Len(Stripped) - Len(marker))
  IN  prefix # EMPTY /\ prefix[1] \in {"*", "#"}

\* the list branch
ParseListItem ==
  /\ program = "fetch_wikiproject_sources"
  /\ wp_pc = "loop"
  /\ pos <= Len(lines)
  /\ ~StartsWith(Stripped, <<"=">>)
  /\ ~StartsWith(Stripped, S_table_open)
  /\ IsListItem
  /\ LET item == _parse_bullet_line(Stripped)
     IN  IF item[1] # EMPTY
           THEN /\ page_entries' = Append(page_entries, SourceEntry(item[1], current_status, item[2]))
                /\ origins' = Append(origins, [line |-> pos, kind |-> "list", class |-> None])
           ELSE UNCHANGED <<page_entries, origins>>
  /\ pos' = pos + 1
  /\ UNCHANGED <<wp_pc, wikitext, lines, current_status>>
  /\ UNCHANGED othersOfPage

\* a line that no branch takes
OtherLine ==
  /\ program = "fetch_wikiproject_sources"
  /\ wp_pc = "loop"
  /\ pos <= Len(lines)
  /\ ~StartsWith(Stripped, <<"=">>)
  /\ ~StartsWith(Stripped, S_table_open)
  /\ ~IsListItem
  /\ pos' = pos + 1
  /\ UNCHANGED <<wp_pc, wikitext, lines, current_status, page_entries, origins>>
  /\ UNCHANGED othersOfPage

\* the iterator is exhausted: return entries
ParsePageReturn ==
  /\ program = "fetch_wikiproject_sources"
  /\ wp_pc = "loop"
  /\ pos > Len(lines)
  /\ wp_pc' = "returned"
  /\ UNCHANGED <<wikitext, lines, pos, current_status, page_entries, origins>>
  /\ UNCHANGED othersOfPage

InitPage ==
  /\ program = "fetch_wikiproject_sources"
  /\ wp_pc = "idle"
  /\ wikitext \in Pages
  /\ lines = EMPTY
  /\ pos = 1
  /\ current_status = None
  /\ page_entries = EMPTY
  /\ origins = EMPTY
  /\ IdlePerennial /\ IdleArticles /\ config = DefaultConfig /\ IdleUrl /\ IdleClean
  /\ IdleWikitext /\ IdleRow /\ IdleCall

NextPage ==
  \/ ParsePage
  \/ ParseHeading
  \/ ParseTable
  \/ ParseListItem
  \/ OtherLine
  \/ ParsePageReturn

SpecPage == InitPage /\ [][NextPage]_vars

(***************************************************************************)
(* C4, C5: the status of the entries of parse_page                         *)
(***************************************************************************)
\* line j of the page is inside a table that an earlier line opened
RECURSIVE InsideTable(_)
InsideTable(j) ==
  IF j <= 1 THEN FALSE
  ELSE LET before == Strip(lines[j - 1])
       IN  IF InsideTable(j - 1) THEN ~StartsWith(before, S_table_close)
           ELSE ~StartsWith(before, <<"=">>) /\ StartsWith(before, S_table_open)

\* the status that line j sets as a heading, None when it is no heading or names none
StatusOfLine(j) ==
  IF ~InsideTable(j) /\ StartsWith(Strip(lines[j]), <<"=">>)
    THEN _status_from_heading(Strip(HeadingText(Strip(lines[j]))))
    ELSE None

\* the status of the most recent status heading before line n, None when there is none
StatusInEffect(n) ==
  LET headings == {j \in 1..(n - 1) : StatusOfLine(j) # None}
  IN  IF headings = {} THEN None
      ELSE StatusOfLine(CHOOSE j \in headings : \A h \in headings : h <= j)

\* the codes of the reliability classes a class attribute value contains
ClassCodes(class_value) ==
  { m[2] : m \in { c \in { <<S_ko_rel, S_gr>>, <<S_ko_unrel, S_gu>>, <<S_ko_nocon, S_nc>>,
                           <<S_ko_b, S_d>> } :
                   class_value # None /\ Contains(class_value, c[1]) } }

C5_ClassStatus ==
  wp_pc = "returned" => \A k \in 1..Len(page_entries) :
    origins[k].kind = "table" =>
      LET in_effect == StatusInEffect(origins[k].line)
          codes == ClassCodes(origins[k].class)
          status == page_entries[k].reliability_status
      IN  /\ in_effect # None => status = in_effect
          /\ in_effect = None /\ codes # {} => status \in codes
          /\ in_effect = None /\ codes = {} => status = None

\* the table with a row per class, parsed with no heading before it and after a heading
C5_Witness ==
  /\ wp_pc = "returned"
  /\ \/ /\ lines = T_CLASSES
        /\ [k \in 1..Len(page_entries) |-> page_entries[k].reliability_status]
             = <<S_gu, S_gr, S_nc, S_d, None, None>>
     \/ /\ lines = H_RELIABLE \o T_CLASSES
        /\ [k \in 1..Len(page_entries) |-> page_entries[k].reliability_status]
             = <<S_gr, S_gr, S_gr, S_gr, S_gr, S_gr>>

(***************************************************************************)
(* C19: parse_page consumes a table as a whole                             *)
(***************************************************************************)
\* the line the loop of parse_page reads next opens a table
OpensTable ==
  /\ wp_pc = "loop" /\ pos <= Len(lines)
  /\ ~StartsWith(Strip(lines[pos]), <<"=">>)
  /\ StartsWith(Strip(lines[pos]), S_table_open)

\* the lines after line n that close a table (stripped, they start with "|}")
ClosingAfter(n) == {k \in (n + 1)..Len(lines) : StartsWith(Strip(lines[k]), S_table_close)}

\* C19: when parse_page reads a line that (stripped) starts with "{|", its next step
\* takes that line and the lines up to and including the first later line that
\* (stripped) starts with "|}", or up to the end of the input when there is none, and
\* leaves the heading status as it was; the loop never reads a line inside a table,
\* so that no such line counts as a heading (the status is the one of the headings
\* outside tables) or gives a list entry; every step of the loop moves forward in the
\* input, and at the end of the input parse_page returns
C19_TableConsumedWhole ==
  /\ [][(OpensTable /\ pos' # pos) =>
          /\ current_status' = current_status
          /\ \A k \in pos..(pos' - 1) : k = pos \/ InsideTable(k)
          /\ IF ClosingAfter(pos) = {} THEN pos' = Len(lines) + 1
             ELSE /\ pos' - 1 \in ClosingAfter(pos)
                  /\ \A k \in ClosingAfter(pos) : pos' - 1 <= k
          /\ \A k \in (Len(origins) + 1)..Len(origins') :
               origins'[k].kind = "table" /\ origins'[k].line = pos]_vars
  /\ []((wp_pc = "loop" /\ pos <= Len(lines)) => ~InsideTable(pos))
  /\ [](wp_pc \in {"loop", "returned"} =>
          /\ current_status = StatusInEffect(pos)
          /\ \A k \in 1..Len(origins) :
               origins[k].kind = "list" => ~InsideTable(origins[k].line))
  /\ [][(wp_pc = "loop" /\ pos' # pos) => (pos < pos' /\ pos' <= Len(lines) + 1)]_vars
  /\ []((wp_pc = "loop" /\ pos > Len(lines)) => ENABLED ParsePageReturn)

\* parse_page has returned from a page whose table is never closed and is followed
\* by a status heading and a list item: no entry, no status
C19_Witness ==
  /\ wp_pc = "returned"
  /\ lines = T_UNCLOSED \o H_UNRELIABLE \o B_DASH
  /\ page_entries = EMPTY
  /\ current_status = None

(***************************************************************************)
(* core/utils/normalize_url.py: a call of canonicalize_url                 *)
(***************************************************************************)
\* the parts the URLs of the model are written from
Schemes == { <<"h","t","t","p","s">>, <<"H","T","T","P">>, <<>> }

\* host names, as the lists of their labels
Hosts ==
  { <<<<"w","w","w">>, <<"n","y","t","i">>, <<"m","s">>>>,
    <<<<"n","y","t","i","m","e","s">>, <<"c","o","m">>>>,
    <<<<"W","W","W">>, <<"M">>, <<"N","e","w","s">>, <<"E","x","a","m","p","l","e">>, <<"c","o","m">>>>,
    <<<<"e","x","a","m","p","l","e">>, <<"c","o","m">>>>,
    <<<<"l","o","c","a","l","h","o","s","t">>>> }

Paths == { <<>>, <<"/">>, <<"/","p","a","t","h">> }

\* query strings, as the lists of their segments
QueryLists ==
  { <<>>,
    <<<<"u","t","m","_","s","o","u","r","c","e","=","t","w","i","t","t","e","r">>>>,
    <<<<"b","=","1">>, <<"a","=","2">>>>,
    <<<<"a","=","2">>, <<"b","=","1">>>>,
    <<<<"a","=","2">>, <<"a","=","1">>, <<"B","=","3">>>>,
    <<<<"q","=","x","+","y">>, <<"p","=","%","2","F">>, <<"k">>>>,
    <<<<"x","=","1">>, <<>>, <<"b","=">>>> }

Fragments == { <<>>, <<"#","f","r","a","g">> }

S_scheme_sep ==
  <<":","/","/">>

S_userinfo ==
  <<"u","s","e","r","@">>

S_port ==
  <<":","8","0","8","0">>

S_nyti_ms ==
  <<"n","y","t","i",".","m","s">>

S_nytimes_com ==
  <<"n","y","t","i","m","e","s",".","c","o","m">>

S_example_com ==
  <<"e","x","a","m","p","l","e",".","c","o","m">>

S_News_Example_ORG ==
  <<"N","e","w","s",".","E","x","a","m","p","l","e",".","O","R","G">>

S_https_nytimes_com ==
  <<"h","t","t","p","s",":","/","/","n","y","t","i","m","e","s",".","c","o","m">>

S_https_example_com ==
  <<"h","t","t","p","s",":","/","/","e","x","a","m","p","l","e",".","c","o","m">>

S_https_example_com_a2_b1 ==
  <<"h","t","t","p","s",":","/","/","e","x","a","m","p","l","e",".","c","o","m","?","a","=","2","&","b","=","1">>


UrlParts ==
  [scheme : Schemes, decorated : BOOLEAN, labels : Hosts, path : Paths,
   segments : QueryLists, fragment : Fragments]

\* the URL written from the parts p
Compose(p) ==
  (IF p.scheme = EMPTY THEN EMPTY ELSE p.scheme \o S_scheme_sep)
  \o (IF p.decorated THEN S_userinfo ELSE EMPTY)
  \o Join(p.labels, <<".">>)
  \o (IF p.decorated THEN S_port ELSE EMPTY)
  \o p.path
  \o (IF p.segments = EMPTY THEN EMPTY ELSE <<"?">> \o Join(p.segments, <<"&">>))
  \o p.fragment

\* the alias maps of the model
AliasMaps ==
  { EmptyDict, S_nyti_ms :> S_nytimes_com, S_example_com :> S_News_Example_ORG }

\* the configurations of the model: the default one with an alias map, with the query
\* stripped or kept
Configs ==
  { [DefaultConfig EXCEPT !.aliases = a, !.strip_query_params = q] :
      a \in AliasMaps, q \in BOOLEAN }

\* canonicalize_url(url, config) is called and returns
Canonicalize ==
  /\ program = "normalize_url"
  /\ nu_pc = "idle"
  /\ canon' = canonicalize_url(url, config)
  /\ nu_pc' = "returned"
  /\ UNCHANGED <<url, url_parts, config>>
  /\ UNCHANGED othersOfUrl

InitUrl ==
  /\ program = "normalize_url"
  /\ nu_pc = "idle"
  /\ url_parts \in UrlParts
  /\ url = Compose(url_parts)
  /\ canon = EMPTY
  /\ config \in Configs
  /\ IdlePerennial /\ IdleArticles /\ IdlePage /\ IdleClean /\ IdleWikitext /\ IdleRow /\ IdleCall

NextUrl == Canonicalize

SpecUrl == InitUrl /\ [][NextUrl]_vars

(***************************************************************************)
(* C7, C8: the canonical form of a URL                                     *)
(***************************************************************************)
\* the host the claim describes: the labels lowercased, a leading www label removed,
\* the last two of the rest, and the alias of that name when aliases has one
ClaimedHost(labels, aliases) ==
  LET lower == [k \in 1..Len(labels) |-> Lower(labels[k])]
      no_www == IF Len(lower) >= 2 /\ lower[1] = <<"w","w","w">> THEN Tail(lower) ELSE lower
      n == Len(no_www)
      name == Join(IF n > 2 THEN SubSeq(no_www, n - 1, n) ELSE no_www, <<".">>)
  IN  IF name \in DOMAIN aliases THEN aliases[name] ELSE name

RECURSIVE PairsOf(_)
PairsOf(segments) ==
  IF segments = EMPTY THEN EMPTY
  ELSE (IF Head(segments) = EMPTY THEN EMPTY
        ELSE LET nv == SplitOnce(Head(segments), <<"=">>)
             IN  << <<unquote_plus(nv[1]), IF Len(nv) = 2 THEN unquote_plus(nv[2]) ELSE EMPTY>> >>)
       \o PairsOf(Tail(segments))

\* the query parameters a canonical URL shows, as written
ShownParameters(canonical) ==
  IF Contains(canonical, <<"?">>) THEN Split(SplitOnce(canonical, <<"?">>)[2], <<"&">>) ELSE EMPTY

\* the rearrangements of a list
Rearrangements(list) ==
  { [k \in 1..Len(list) |-> list[f[k]]] :
      f \in { g \in [1..Len(list) -> 1..Len(list)] : \A a, b \in 1..Len(list) : a # b => g[a] # g[b] } }

\* C8: with strip_query_params=False the result shows every query parameter of the URL,
\* in the order of their (key, value) pairs, and the URLs that differ from the URL only in
\* the order of their query parameters have the same result
C8_QuerySorted ==
  (nu_pc = "returned" /\ config.strip_query_params = FALSE)
    => /\ \E pairs \in Rearrangements(PairsOf(url_parts.segments)) :
            /\ \A k \in 1..(Len(pairs) - 1) : ~PairLess(pairs[k + 1], pairs[k])
            /\ ShownParameters(canon) =
                 [k \in 1..Len(pairs) |->
                    Lower(quote_plus(pairs[k][1]) \o <<"=">> \o quote_plus(pairs[k][2]))]
       /\ \A segments \in Rearrangements(url_parts.segments) :
            canonicalize_url(Compose([url_parts EXCEPT !.segments = segments]), config) = canon

\* the URL of test_keep_query_params
C8_Witness ==
  /\ nu_pc = "returned"
  /\ config = [DefaultConfig EXCEPT !.strip_query_params = FALSE]
  /\ url_parts = [scheme |-> <<"h","t","t","p","s">>, decorated |-> FALSE,
                  labels |-> << <<"e","x","a","m","p","l","e">>, <<"c","o","m">> >>,
                  path |-> <<"/">>,
                  segments |-> << <<"b","=","1">>, <<"a","=","2">> >>,
                  fragment |-> EMPTY]
  /\ canon = S_https_example_com_a2_b1

(***************************************************************************)
(* src/clean_sources.py: clean_refs                                        *)
(***************************************************************************)
\* the refs of test_clean_refs_counts, and refs without url or article; a missing key
\* is modelled by the value None that ref.get returns for it
RefPool ==
  { [article |-> <<"A">>,
      url |-> <<"h","t","t","p","s",":","/","/","w","w","w",".","n","y","t","i",".","m","s","/","f","o","o","?","r","e","f","=","b","a","r">>],
    [article |-> <<"A">>,
      url |-> <<"h","t","t","p","s",":","/","/","n","y","t","i","m","e","s",".","c","o","m","/","f","o","o">>],
    [article |-> <<"B">>,
      url |-> <<"h","t","t","p","s",":","/","/","n","y","t","i","m","e","s",".","c","o","m","/","b","a","r">>],
    [article |-> <<"B">>,
      url |-> <<"h","t","t","p","s",":","/","/","e","x","a","m","p","l","e",".","c","o","m","?","x","=","1">>],
    [article |-> <<"A">>,
      url |-> <<>>],
    [article |-> None,
      url |-> None],
    [article |-> <<>>,
      url |-> <<"h","t","t","p","s",":","/","/","e","x","a","m","p","l","e",".","c","o","m","?","x","=","1">>] }

\* the longest list of refs
MaxRefs == 3

RefLists == UNION { [1..n -> RefPool] : n \in 0..MaxRefs }

\* clean_refs(refs, config) is called: its counters are set up
CleanRefs ==
  /\ program = "clean_sources"
  /\ cr_pc = "idle"
  /\ total_counter' = EMPTY
  /\ unique_per_article' = EmptyDict
  /\ ref_k' = 1
  /\ cr_pc' = "loop"
  /\ UNCHANGED <<refs, result, config>>
  /\ UNCHANGED othersOfClean

\* ref.get("url") or ""
UrlOf(ref) == IF ref.url = None THEN EMPTY ELSE ref.url

\* counter[key] += 1, on the list of the Counter's items
RECURSIVE Increment(_, _)
Increment(counter, key) ==
  IF counter = EMPTY THEN << <<key, 1>> >>
  ELSE IF Head(counter)[1] = key THEN << <<key, Head(counter)[2] + 1>> >> \o Tail(counter)
  ELSE <<Head(counter)>> \o Increment(Tail(counter), key)

\* unique_per_article[article].add(canonical)
AddTo(sets, article, canonical) ==
  [a \in DOMAIN sets \cup {article} |->
     (IF a \in DOMAIN sets THEN sets[a] ELSE {}) \cup (IF a = article THEN {canonical} ELSE {})]

\* the body of the first loop, without the test of article
CountRefOfAnyArticle ==
  /\ program = "clean_sources"
  /\ cr_pc = "loop"
  /\ ref_k <= Len(refs)
  /\ LET canonical == src_canonicalize_url(UrlOf(refs[ref_k]), config)
     IN  /\ unique_per_article' = AddTo(unique_per_article, refs[ref_k].article, canonical)
         /\ total_counter' = Increment(total_counter, canonical)
  /\ ref_k' = ref_k + 1
  /\ UNCHANGED <<cr_pc, refs, result, config>>
  /\ UNCHANGED othersOfClean

\* the body of the first loop
CountRef ==
  /\ program = "clean_sources"
  /\ cr_pc = "loop"
  /\ ref_k <= Len(refs)
  /\ LET article == refs[ref_k].article
         canonical == src_canonicalize_url(UrlOf(refs[ref_k]), config)
     IN  /\ unique_per_article' =
              IF article # None /\ article # EMPTY
                THEN AddTo(unique_per_article, article, canonical)
                ELSE unique_per_article
         /\ total_counter' = Increment(total_counter, canonical)
  /\ ref_k' = ref_k + 1
  /\ UNCHANGED <<cr_pc, refs, result, config>>
  /\ UNCHANGED othersOfClean

\* the record of the second loop for one item of the Counter
RECURSIVE Records(_)
Records(counter) ==
  IF counter = EMPTY THEN EMPTY
  ELSE << [source |-> Head(counter)[1],
           unique_count |-> Cardinality({a \in DOMAIN unique_per_article :
                                           Head(counter)[1] \in unique_per_article[a]}),
           total_count |-> Head(counter)[2]] >>
       \o Records(Tail(counter))

\* the second loop and the return
BuildResult ==
  /\ program = "clean_sources"
  /\ cr_pc = "loop"
  /\ ref_k > Len(refs)
  /\ result' = Records(total_counter)
  /\ cr_pc' = "returned"
  /\ UNCHANGED <<refs, ref_k, total_counter, unique_per_article, config>>
  /\ UNCHANGED othersOfClean

InitClean ==
  /\ program = "clean_sources"
  /\ cr_pc = "idle"
  /\ refs \in RefLists
  /\ config \in {DefaultConfig, [DefaultConfig EXCEPT !.aliases = S_nyti_ms :> S_nytimes_com]}
  /\ ref_k = 1
  /\ total_counter = EMPTY
  /\ unique_per_article = EmptyDict
  /\ result = EMPTY
  /\ IdlePerennial /\ IdleArticles /\ IdlePage /\ IdleUrl /\ IdleWikitext /\ IdleRow /\ IdleCall

NextClean ==
  \/ CleanRefs
  \/ CountRef
  \/ BuildResult

SpecClean == InitClean /\ [][NextClean]_vars

(***************************************************************************)
(* C6: the counts of clean_refs                                            *)
(***************************************************************************)
\* the canonical URL of the k-th ref
CanonicalOf(k) == src_canonicalize_url(UrlOf(refs[k]), config)

\* C6: the result of clean_refs has exactly one record per distinct canonical URL among
\* the refs (the empty string for a ref without url); its total_count is the number of
\* refs with that canonical URL and its unique_count the number of distinct non-empty
\* article values among those refs
C6_Counts ==
  cr_pc = "returned" =>
    /\ {result[n].source : n \in 1..Len(result)} = {CanonicalOf(k) : k \in 1..Len(refs)}
    /\ \A n, m \in 1..Len(result) : result[n].source = result[m].source => n = m
    /\ \A n \in 1..Len(result) :
         LET with_source == {k \in 1..Len(refs) : CanonicalOf(k) = result[n].source}
         IN  /\ result[n].total_count = Cardinality(with_source)
             /\ result[n].unique_count =
                  Cardinality({refs[k].article : k \in with_source} \ {None, EMPTY})

\* three refs of two articles to one source, one of them through an alias
C6_Witness ==
  /\ cr_pc = "returned"
  /\ Len(refs) = 3
  /\ result = << [source |-> S_https_nytimes_com, unique_count |-> 2, total_count |-> 3] >>

(***************************************************************************)
(* src/fetch_wikitext.py: fetch_wikitext                                   *)
(***************************************************************************)
\* the titles of the model
ArticleTitlePool ==
  { <<"F","o","o","/","B","a","r">>, <<"F","o","o","_","B","a","r">>, <<"B","a","z">> }

\* the contents _fetch_single can return: "" for a page without revisions, or a wikitext
Contents == { EMPTY, <<"x">>, <<"y">> }

\* the longest article_list
MaxTitles == 2

S_txt == <<".","t","x","t">>

\* fetch_wikitext(article_list, output_dir) is called: output_dir.mkdir
FetchWikitext ==
  /\ program = "fetch_wikitext"
  /\ fw_pc = "idle"
  /\ fw_k' = 1
  /\ fw_pc' = "loop"
  /\ UNCHANGED <<article_list, output_dir, fetched>>
  /\ UNCHANGED othersOfWikitext

\* the body of the loop: the content is fetched and written to the title's file
FetchAndWrite ==
  /\ program = "fetch_wikitext"
  /\ fw_pc = "loop"
  /\ fw_k <= Len(article_list)
  /\ \E content \in Contents :
       LET title == article_list[fw_k]
           fname == ReplaceChar(title, "/", "_") \o S_txt
       IN  /\ fetched' = Put(fetched, title, content)
           /\ output_dir' = Put(output_dir, fname, content)
  /\ fw_k' = fw_k + 1
  /\ UNCHANGED <<fw_pc, article_list>>
  /\ UNCHANGED othersOfWikitext

\* resp.raise_for_status() raises in _fetch_single: fetch_wikitext ends with the exception
WikitextRequestFails ==
  /\ program = "fetch_wikitext"
  /\ fw_pc = "loop"
  /\ fw_k <= Len(article_list)
  /\ fw_pc' = "failed"
  /\ UNCHANGED <<article_list, fw_k, output_dir, fetched>>
  /\ UNCHANGED othersOfWikitext

\* the loop is over: fetch_wikitext returns
FetchWikitextReturn ==
  /\ program = "fetch_wikitext"
  /\ fw_pc = "loop"
  /\ fw_k > Len(article_list)
  /\ fw_pc' = "returned"
  /\ UNCHANGED <<article_list, fw_k, output_dir, fetched>>
  /\ UNCHANGED othersOfWikitext

InitWikitext ==
  /\ program = "fetch_wikitext"
  /\ fw_pc = "idle"
  /\ article_list \in UNION { [1..n -> ArticleTitlePool] : n \in 0..MaxTitles }
  /\ fw_k = 1
  /\ output_dir = EmptyDict
  /\ fetched = EmptyDict
  /\ IdlePerennial /\ IdleArticles /\ IdlePage /\ config = DefaultConfig /\ IdleUrl
  /\ IdleClean /\ IdleRow /\ IdleCall

NextWikitext ==
  \/ FetchWikitext
  \/ FetchAndWrite
  \/ WikitextRequestFails
  \/ FetchWikitextReturn

SpecWikitext == InitWikitext /\ [][NextWikitext]_vars

(***************************************************************************)
(* C9: the files fetch_wikitext leaves                                     *)
(***************************************************************************)
\* C9: after fetch_wikitext returns, for every title of article_list the file named by the
\* title with every "/" replaced by "_", followed by ".txt", holds exactly the content
\* fetched for that title
C9_FilePerTitle ==
  fw_pc = "returned" =>
    \A k \in 1..Len(article_list) :
      LET title == article_list[k]
          fname == [n \in 1..Len(title) |-> IF title[n] = "/" THEN "_" ELSE title[n]] \o S_txt
      IN  fname \in DOMAIN output_dir /\ output_dir[fname] = fetched[title]

(***************************************************************************)
(* scripts/fetch_perennial_sources.py: a call of parse_row                 *)
(***************************************************************************)
\* the row attributes of test_parse_row
ROW_ATTRIBUTES ==
  <<"c","l","a","s","s","=","\"","s","-","g","r","\""," ","i","d","=","\"","E","x","a","m","p","l","e","\"">>

\* the lines a row is written from, a set per column; EMPTY for a line left out
SourceCells ==
  { <<"|"," ","[","[","E","x","a","m","p","l","e"," ","N","e","w","s","]","]">>,
    <<"|"," ","'","'","P","l","a","i","n","'","'">> }

StatusCells ==
  { <<"|"," ","{","{","W","P",":","R","S","P","S","T","A","T","U","S","|","g","r","}","}">>,
    <<"|"," ","n","o","n","e">>,
    <<"|">> }

DiscussionCells ==
  { <<"|"," ","D","i","s","c","u","s","s","i","o","n">>,
    <<"|">>,
    <<"|"," ","{","{","r","s","n","l","|","1","}","}","\n","{","{","r","s","n","l","|","2","}","}">> }

LastCells ==
  { <<"|"," ","{","{","W","P",":","R","S","P","L","A","S","T","|","2","0","2","3","}","}">>,
    <<"|"," ">> }

NotesCells ==
  { <<"|"," ","S","o","m","e"," ","'","'","n","o","t","e","s","'","'"," ","h","e","r","e",".">>,
    <<>> }

UsesCells ==
  { <<"|"," ","{","{","W","P",":","R","S","P","U","S","E","S","|","e","x","a","m","p","l","e",".","c","o","m","}","}">>,
    <<>> }

\* the row written from the lines ls: the attributes and each line, a newline after each
RECURSIVE RowOfLines(_)
RowOfLines(ls) ==
  IF ls = EMPTY THEN EMPTY
  ELSE (IF Head(ls) = EMPTY THEN EMPTY ELSE Head(ls) \o <<"\n">>) \o RowOfLines(Tail(ls))

\* the rows extract_rows can return
Rows ==
  { RowOfLines(<<ROW_ATTRIBUTES, a, b, c, d, e, f>>) :
      a \in SourceCells, b \in StatusCells, c \in DiscussionCells, d \in LastCells,
      e \in NotesCells, f \in UsesCells }

\* parse_row(row) is called and returns or raises
ParseRow ==
  /\ program = "parse_row"
  /\ pr_pc = "idle"
  /\ parsed' = parse_row(row)
  /\ pr_pc' = IF IsRaised(parse_row(row)) THEN "raised" ELSE "returned"
  /\ UNCHANGED row
  /\ UNCHANGED othersOfRow

InitRow ==
  /\ program = "parse_row"
  /\ pr_pc = "idle"
  /\ row \in Rows
  /\ parsed = None
  /\ IdlePerennial /\ IdleArticles /\ IdlePage /\ config = DefaultConfig /\ IdleUrl
  /\ IdleClean /\ IdleWikitext /\ IdleCall

NextRow == ParseRow

SpecRow == InitRow /\ [][NextRow]_vars

(***************************************************************************)
(* C10: the cells parse_row reads                                          *)
(***************************************************************************)
\* the lines of the row after the line of its attributes
LinesAfterAttributes == Tail(Split(row, <<"\n">>))

\* the indexes of the lines that start with "|"
CellStarts == {k \in 1..Len(LinesAfterAttributes) : StartsWith(LinesAfterAttributes[k], <<"|">>)}

\* the text of the n-th cell: its line without the "|", and the lines up to the next cell
RECURSIVE Continued(_, _)
Continued(text, k) ==
  IF k > Len(LinesAfterAttributes) \/ k \in CellStarts THEN text
  ELSE Continued(text \o <<" ">> \o Strip(LinesAfterAttributes[k]), k + 1)

CellText(n) ==
  LET k == CHOOSE j \in CellStarts : Cardinality({h \in CellStarts : h <= j}) = n
  IN  Continued(Strip(Tail(LinesAfterAttributes[k])), k + 1)

\* C10: for a row with at least five lines starting with "|" after the line of its
\* attributes, parse_row returns the entry with the source name of the first cell, the
\* first parameter of the first template of the second cell as status (None when the cell
\* has no template) and the notes of the fifth cell
C10_CellsByPosition ==
  (pr_pc # "idle" /\ Cardinality(CellStarts) >= 5) =>
    /\ pr_pc = "returned"
    /\ parsed.source_name = Strip(strip_code(CellText(1)))
    /\ parsed.reliability_status =
         (IF filter_templates(CellText(2)) = EMPTY THEN None
          ELSE Strip(strip_code(TemplateParams(filter_templates(CellText(2))[1])[1])))
    /\ parsed.notes = Strip(strip_code(CellText(5)))

(***************************************************************************)
(* scripts/fetch_perennial_sources.py, clean_entries                       *)
(***************************************************************************)
\* entries a list may hold: names alike up to case, surrounding space and sort
\* metadata, told apart by their notes
EntryPool ==
  { SourceEntry(<<"Z","e","d">>, <<"g","r">>, <<"1">>),
    SourceEntry(<<"z","e","d">>, <<"G","e","n","e","r","a","l","l","y"," ","u","n","r","e","l","i","a","b","l","e">>, <<"2">>),
    SourceEntry(<<" ","d","a","t","a","-","s","o","r","t","-","v","a","l","u","e","=","\"","Z","e","d","\""," ","|"," ","Z","E","D"," ">>, None, <<"3">>),
    SourceEntry(<<"A","b","c">>, <<"d">>, <<"4">>),
    SourceEntry(<<"A","B","C">>, <<>>, <<"5">>) }

MaxEntries == 3

EntryLists == UNION {[1..n -> EntryPool] : n \in 0..MaxEntries}

\* clean_entries(entries) is called and returns
CleanEntries ==
  /\ program = "clean_entries"
  /\ call_pc = "idle"
  /\ call_return' = clean_entries(call_args.entries)
  /\ call_pc' = "returned"
  /\ UNCHANGED call_args
  /\ UNCHANGED othersOfCall

InitCleanEntries ==
  /\ program = "clean_entries"
  /\ call_pc = "idle"
  /\ call_args \in {[entries |-> es] : es \in EntryLists}
  /\ call_return = None
  /\ IdlePerennial /\ IdleArticles /\ IdlePage /\ config = DefaultConfig /\ IdleUrl
  /\ IdleClean /\ IdleWikitext /\ IdleRow

NextCleanEntries == CleanEntries

SpecCleanEntries == InitCleanEntries /\ [][NextCleanEntries]_vars

(***************************************************************************)
(* C11: clean_entries removes duplicates                                   *)
(***************************************************************************)
\* the cleaned source name of the k-th entry of the input, case ignored
NameKey(k) == Lower(clean_source_name(call_args.entries[k].source_name))

\* the k-th entry of the input is the first one of its name
FirstOfItsName(k) == \A j \in 1..(k - 1) : NameKey(j) # NameKey(k)

\* C11: the list clean_entries returns is a subsequence of its input (the entries are
\* those of the input, their fields normalized in place) in which no two entries have
\* cleaned source names equal ignoring case, and the entry kept for a name is the
\* first entry of that name in the input
C11_FirstOccurrenceKept ==
  call_pc = "returned" =>
    /\ \E f \in [1..Len(call_return) -> 1..Len(call_args.entries)] :
         /\ \A j, k \in DOMAIN f : j < k => f[j] < f[k]
         /\ \A j \in DOMAIN f :
              /\ call_return[j] = CleanedEntry(call_args.entries[f[j]])
              /\ FirstOfItsName(f[j])
    /\ \A j, k \in 1..Len(call_return) :
         j # k => Lower(call_return[j].source_name) # Lower(call_return[k].source_name)
    /\ \A k \in 1..Len(call_args.entries) :
         \E j \in 1..Len(call_return) : Lower(call_return[j].source_name) = NameKey(k)

\* a call returned with an entry dropped whose name differs from the kept one in case
C11_Witness ==
  /\ call_pc = "returned"
  /\ Len(call_return) < Len(call_args.entries)
  /\ \E j, k \in 1..Len(call_args.entries) :
       /\ j < k
       /\ NameKey(j) = NameKey(k)
       /\ clean_source_name(call_args.entries[j].source_name)
            # clean_source_name(call_args.entries[k].source_name)


(***************************************************************************)
(* src/clean_sources.py, rank_sources                                      *)
(***************************************************************************)
\* sorted(data, key=lambda r: r["total_count"], reverse=True), record by record: a
\* record goes behind the records that count as much or more, the sort being stable
InsertRanked(ranked, r) ==
  LET before == {k \in 0..Len(ranked) :
                   \A j \in 1..k : ranked[j].total_count >= r.total_count}
      at == CHOOSE k \in before : \A j \in before : j <= k
  IN  SubSeq(ranked, 1, at) \o <<r>> \o SubSeq(ranked, at + 1, Len(ranked))

RECURSIVE SortedByTotalCount(_, _)
SortedByTotalCount(data, ranked) ==
  IF data = EMPTY THEN ranked
  ELSE SortedByTotalCount(Tail(data), InsertRanked(ranked, Head(data)))

\* ranked[:limit]: a negative limit counts from the end
SliceTo(ranked, limit) ==
  IF limit >= 0 THEN SubSeq(ranked, 1, IF limit < Len(ranked) THEN limit ELSE Len(ranked))
  ELSE SubSeq(ranked, 1, Len(ranked) + limit)

\* the sort with reverse left out
RECURSIVE rank_sources_ascending(_, _)
rank_sources_ascending(data, limit) ==
  IF data = EMPTY THEN EMPTY
  ELSE LET least == CHOOSE k \in 1..Len(data) :
                      /\ \A j \in 1..Len(data) : data[k].total_count <= data[j].total_count
                      /\ \A j \in 1..(k - 1) : data[j].total_count # data[k].total_count
           others == SubSeq(data, 1, least - 1) \o SubSeq(data, least + 1, Len(data))
       IN  SliceTo(<<data[least]>> \o rank_sources_ascending(others, Len(data)), limit)

rank_sources(data, limit) == SliceTo(SortedByTotalCount(data, EMPTY), limit)

\* the records clean_refs can return, as far as rank_sources reads them
RecordPool ==
  { [source |-> s, unique_count |-> 1, total_count |-> t] :
      s \in {<<"a">>, <<"b">>}, t \in {1, 3, 5} }

MaxRecords == 3

RecordLists == UNION {[1..n -> RecordPool] : n \in 0..MaxRecords}

\* the limits a caller can pass: negative, zero, below and above the number of records
Limits == (0 - 2)..(MaxRecords + 1)

\* rank_sources(data, limit) is called and returns
RankSources ==
  /\ program = "rank_sources"
  /\ call_pc = "idle"
  /\ call_return' = rank_sources(call_args.data, call_args.limit)
  /\ call_pc' = "returned"
  /\ UNCHANGED call_args
  /\ UNCHANGED othersOfCall

InitRankSources ==
  /\ program = "rank_sources"
  /\ call_pc = "idle"
  /\ call_args \in {[data |-> d, limit |-> n] : d \in RecordLists, n \in Limits}
  /\ call_return = None
  /\ IdlePerennial /\ IdleArticles /\ IdlePage /\ config = DefaultConfig /\ IdleUrl
  /\ IdleClean /\ IdleWikitext /\ IdleRow

NextRankSources == RankSources

SpecRankSources == InitRankSources /\ [][NextRankSources]_vars

(***************************************************************************)
(* C12: what rank_sources returns                                          *)
(***************************************************************************)
\* the returned records are records of data, taken at the positions f, in an order
\* of non-increasing total_count in which equal counts keep their order from data,
\* and no record left out counts more than a returned one
RankedSelection ==
  /\ \A j \in 1..(Len(call_return) - 1) :
       call_return[j].total_count >= call_return[j + 1].total_count
  /\ \E f \in [1..Len(call_return) -> 1..Len(call_args.data)] :
       /\ \A j, k \in DOMAIN f : j # k => f[j] # f[k]
       /\ \A j \in DOMAIN f : call_return[j] = call_args.data[f[j]]
       /\ \A j, k \in DOMAIN f :
            (j < k /\ call_return[j].total_count = call_return[k].total_count) => f[j] < f[k]
       /\ \A k \in 1..Len(call_args.data) :
            (\A j \in DOMAIN f : f[j] # k) =>
              \A j \in DOMAIN f : call_args.data[k].total_count <= call_return[j].total_count

\* C12, as claimed: rank_sources(data, limit) returns at most limit records, ordered by
\* non-increasing total_count, no record left out counting more than a returned one,
\* and records of equal total_count in their order from data
C12_AtMostLimitRanked ==
  call_pc = "returned" =>
    /\ Len(call_return) <= call_args.limit
    /\ RankedSelection

\* C12, amended: the same for a limit that is not negative
C12_RankedWithinLimit ==
  (call_pc = "returned" /\ call_args.limit >= 0) =>
    /\ Len(call_return) <= call_args.limit
    /\ RankedSelection

\* a call returned that left a record out and returned two records of equal count
C12_Witness ==
  /\ call_pc = "returned"
  /\ call_args.limit >= 0
  /\ Len(call_return) = call_args.limit
  /\ Len(call_return) < Len(call_args.data)
  /\ \E j, k \in 1..Len(call_return) :
       /\ j < k
       /\ call_return[j].total_count = call_return[k].total_count
       /\ call_return[j] # call_return[k]

(***************************************************************************)
(* utils/normalize_url.py, strip_subdomain                                 *)
(***************************************************************************)
HostLabels == {<<"a">>, <<"b">>, <<"c","o","m">>}

MaxLabels == 4

\* the hostnames of up to MaxLabels labels, the empty hostname among them
Hostnames == {Join(labels, <<".">>) : labels \in UNION {[1..n -> HostLabels] : n \in 0..MaxLabels}}

\* strip_subdomain(hostname) is called and returns
StripSubdomain ==
  /\ program = "strip_subdomain"
  /\ call_pc = "idle"
  /\ call_return' = strip_subdomain(call_args.hostname)
  /\ call_pc' = "returned"
  /\ UNCHANGED call_args
  /\ UNCHANGED othersOfCall

InitStripSubdomain ==
  /\ program = "strip_subdomain"
  /\ call_pc = "idle"
  /\ call_args \in {[hostname |-> h] : h \in Hostnames}
  /\ call_return = None
  /\ IdlePerennial /\ IdleArticles /\ IdlePage /\ config = DefaultConfig /\ IdleUrl
  /\ IdleClean /\ IdleWikitext /\ IdleRow

NextStripSubdomain == StripSubdomain

SpecStripSubdomain == InitStripSubdomain /\ [][NextStripSubdomain]_vars

(***************************************************************************)
(* C13: strip_subdomain removes the first label                            *)
(***************************************************************************)
\* the positions of the dots of the hostname
DotsOfHostname == {k \in 1..Len(call_args.hostname) : call_args.hostname[k] = "."}

\* C13: for a hostname of more than two labels strip_subdomain returns the hostname
\* without its first label (what follows its first dot), and a hostname of at most two
\* labels is returned unchanged
C13_FirstLabelRemoved ==
  call_pc = "returned" =>
    call_return =
      (IF Cardinality(DotsOfHostname) >= 2
         THEN From(call_args.hostname, CHOOSE k \in DotsOfHostname : \A j \in DotsOfHostname : k <= j)
         ELSE call_args.hostname)

(***************************************************************************)
(* scripts/fetch_perennial_sources.py, validate_entries, called by itself  *)
(* and from the two mains                                                  *)
(***************************************************************************)
\* entries of the two names validate_entries looks for, with the status it wants and
\* with another one, and entries of names that differ in case or by a space
CheckedPool ==
  { SourceEntry(S_ABC_News, S_gr, EMPTY),
    SourceEntry(S_ABC_News, S_gu, EMPTY),
    SourceEntry(S_Daily_Mail, S_d, EMPTY),
    SourceEntry(S_Daily_Mail, None, EMPTY),
    SourceEntry(Lower(S_ABC_News), S_gr, EMPTY),
    SourceEntry(S_Daily_Mail \o <<" ">>, S_d, EMPTY) }

MaxChecked == 3

CheckedLists == UNION {[1..n -> CheckedPool] : n \in 0..MaxChecked}

\* validate_entries(entries) is called and returns, or raises ValueError
ValidateEntries ==
  /\ program = "validate_entries"
  /\ call_pc = "idle"
  /\ call_pc' = IF validate_entries(call_args.entries) THEN "returned" ELSE "raised"
  /\ UNCHANGED <<call_args, call_return>>
  /\ UNCHANGED othersOfCall

InitValidateEntries ==
  /\ program = "validate_entries"
  /\ call_pc = "idle"
  /\ call_args \in {[entries |-> es] : es \in CheckedLists}
  /\ call_return = None
  /\ IdlePerennial /\ IdleArticles /\ IdlePage /\ config = DefaultConfig /\ IdleUrl
  /\ IdleClean /\ IdleWikitext /\ IdleRow

\* validate_entries by itself, or one of the scripts that call it
InitValidation == InitValidateEntries \/ InitUC

NextValidation == ValidateEntries \/ NextUC

SpecValidation == InitValidation /\ [][NextValidation]_vars

(***************************************************************************)
(* C15: validate_entries gates every write                                 *)
(***************************************************************************)
\* es has an entry named exactly name, and the first entry of that name has the status
FirstMatchHas(es, name, status) ==
  \E k \in 1..Len(es) :
    /\ es[k].source_name = name
    /\ \A j \in 1..(k - 1) : es[j].source_name # name
    /\ es[k].reliability_status = status

\* the entries validate_entries does not raise on
Passes(es) == FirstMatchHas(es, S_ABC_News, S_gr) /\ FirstMatchHas(es, S_Daily_Mail, S_d)

\* C15: validate_entries raises ValueError unless the entries contain an entry named
\* exactly "ABC News (US)" whose first match has status "gr" and one named exactly
\* "Daily Mail (MailOnline)" whose first match has status "d"; in
\* fetch_perennial_sources.main and in update_checker.main it raises under the same
\* condition on the cleaned entries, the step in which it raises changes none of
\* perennial_sources.json, perennial_sources.csv and the revision file, and no step of
\* a run before validate_entries has returned changes one of them
C15_ValidationGatesWrites ==
  /\ [](call_pc = "returned" => Passes(call_args.entries))
  /\ [](call_pc = "raised" => ~Passes(call_args.entries))
  /\ [][(pc = "clean" /\ pc' # pc) =>
          /\ (pc' = "failed") <=> ~Passes(clean_entries(entries))
          /\ (pc' = "save_json") <=> Passes(clean_entries(entries))
          /\ pc' = "failed" => UNCHANGED <<json_file, csv_file, rev_file>>]_vars
  /\ [][(pc \notin {"save_json", "save_csv", "save_rev"}) =>
          UNCHANGED <<json_file, csv_file, rev_file>>]_vars
  /\ [][(pc' = "save_json") => (pc = "clean" \/ pc = "save_json")]_vars

\* validate_entries raised in a run that found outputs of an earlier run in place
C15_Witness ==
  /\ script \in {"update_checker", "fetch_perennial_sources"} /\ pc = "failed"
  /\ stdout = <<"ValueError: Validation failed">>
  /\ json_file.exists /\ csv_file.exists


(***************************************************************************)
(* scripts/fetch_wikiproject_sources.py, _status_from_heading              *)
(***************************************************************************)
\* the words a heading of the model is written from
HeadingQualifiers ==
  { EMPTY,
    <<"G","e","n","e","r","a","l","l","y"," ">>,
    <<"M","a","r","g","i","n","a","l","l","y"," ">>,
    <<"N","o","t"," ">> }

\* its main word: a status phrase in either case, or none
HeadingWords ==
  { <<"r","e","l","i","a","b","l","e">>,
    <<"R","e","l","i","a","b","l","e">>,
    <<"u","n","r","e","l","i","a","b","l","e">>,
    <<"N","o"," ","c","o","n","s","e","n","s","u","s">>,
    <<"d","e","p","r","e","c","a","t","e","d">>,
    <<"B","l","a","c","k","l","i","s","t","e","d">>,
    <<"s","o","u","r","c","e","s">>,
    <<"n","o","t","e","s">> }

\* its ending: nothing, a word, another status phrase
HeadingEndings ==
  { EMPTY,
    <<" ","s","o","u","r","c","e","s">>,
    <<" ","(","n","o"," ","c","o","n","s","e","n","s","u","s",")">> }

HeadingTexts == {q \o w \o e : q \in HeadingQualifiers, w \in HeadingWords, e \in HeadingEndings}

\* _status_from_heading(text) is called and returns
StatusFromHeading ==
  /\ program = "_status_from_heading"
  /\ call_pc = "idle"
  /\ call_return' = _status_from_heading(call_args.text)
  /\ call_pc' = "returned"
  /\ UNCHANGED call_args
  /\ UNCHANGED othersOfCall

InitStatusFromHeading ==
  /\ program = "_status_from_heading"
  /\ call_pc = "idle"
  /\ call_args \in {[text |-> h] : h \in HeadingTexts}
  /\ call_return = None
  /\ IdlePerennial /\ IdleArticles /\ IdlePage /\ config = DefaultConfig /\ IdleUrl
  /\ IdleClean /\ IdleWikitext /\ IdleRow

NextStatusFromHeading == StatusFromHeading

SpecStatusFromHeading == InitStatusFromHeading /\ [][NextStatusFromHeading]_vars

(***************************************************************************)
(* C20: _status_from_heading and the longest phrase                        *)
(***************************************************************************)
\* the status phrases (keys of STATUS_MAP) the lowercased heading contains
PhrasesInHeading ==
  {k \in 1..Len(STATUS_MAP) : Contains(Lower(call_args.text), STATUS_MAP[k][1])}

\* those of them no other one is longer than
LongestPhrasesInHeading ==
  {k \in PhrasesInHeading :
     \A j \in PhrasesInHeading : Len(STATUS_MAP[j][1]) <= Len(STATUS_MAP[k][1])}

\* C20: _status_from_heading returns the STATUS_MAP code of the longest status phrase
\* the lowercased heading contains ("marginally reliable" headings give m), and None
\* when the heading contains no status phrase
C20_LongestPhraseDecides ==
  call_pc = "returned" =>
    IF PhrasesInHeading = {} THEN call_return = None
    ELSE call_return \in {STATUS_MAP[k][2] : k \in LongestPhrasesInHeading}

Init ==
  \/ InitUC \/ InitArticles \/ InitPage \/ InitUrl \/ InitClean \/ InitWikitext \/ InitRow
  \/ InitCleanEntries \/ InitRankSources \/ InitStripSubdomain \/ InitValidateEntries
  \/ InitStatusFromHeading

Next ==
  \/ NextUC \/ NextArticles \/ NextPage \/ NextUrl \/ NextClean \/ NextWikitext \/ NextRow
  \/ NextCleanEntries \/ NextRankSources \/ NextStripSubdomain \/ ValidateEntries
  \/ Iteration \/ NextStatusFromHeading

Spec == Init /\ [][Next]_vars
====
